---------------------------- MODULE Spec2Model ----------------------------
(***************************************************************************)
(* The in-memory entity store (MemStorage) of the workout tracker and the  *)
(* HTTP routes that guard it.  Containers are JavaScript Maps keyed by an  *)
(* incrementing id; a Map iterates in insertion order, which is ascending  *)
(* key order here because keys are never reinserted.  A route handler      *)
(* awaits only already-resolved store promises, so it runs to completion   *)
(* before the next request is served; the one exception is registration,   *)
(* which awaits the password hash between its check and its insert.        *)
(***************************************************************************)
EXTENDS Integers, FiniteSets, Sequences, Bags, TLC

(* ------------------------------ bounds --------------------------------- *)
MaxUsers == 2
MaxWorkouts == 1
MaxPRs == 1
MaxGroups == 1
MaxMembers == 1
MaxScheduled == 1
MaxResults == 1
MaxDate == 1
\* rows per container when the store is driven directly
MaxRows == 2
\* the latest time of a schedule, of a record and of the clock in a list query
MaxTime == 2
\* workouts and personal records when their list queries are called
MaxRecords == 3
\* the minutes and seconds the timer's settings are raised to, and the rounds
\* an EMOM timer is followed for
MaxMinutes == 5
MaxSeconds == 5
MaxRound == 3

(* ----------------------------- constants ------------------------------- *)
userRoles == {"athlete", "coach", "admin"}
exerciseCategories == {"Weightlifting", "Gymnastics", "Cardio", "Metcons"}
Usernames == {"ana", "bia"}
Passwords == {"pw"}
Dates == 1..MaxDate
Times == 1..MaxTime
\* the value a JavaScript expression yields for a missing date
undefined == 0 - 1
\* req.session.userId of a request that carries no session
NoSession == 0

VARIABLES
  users, workouts, exercises, personalRecords,
  groups, groupMembers, scheduledWorkouts, workoutResults,
  userIdCounter, workoutIdCounter, exerciseIdCounter, prIdCounter,
  groupIdCounter, groupMemberIdCounter, scheduledWorkoutIdCounter,
  workoutResultIdCounter,
  hashing,   \* registrations past the username check, awaiting bcrypt.hash
  resp,      \* the response of the request handled last
  ret,       \* what the boolean store operation of the last request returned
  timerType, \* Timer's activeTimer, the timerType of TimerControls
  settings,  \* Timer's timerSettings, the settings of TimerControls
  isRunning, timeLeft, round,   \* the state of TimerControls
  intervalRef,   \* intervalRef.current: null, or the interval set last
  mounted    \* the component tree is rendered

containers == <<users, workouts, exercises, personalRecords,
                groups, groupMembers, scheduledWorkouts, workoutResults>>
counters == <<userIdCounter, workoutIdCounter, exerciseIdCounter, prIdCounter,
              groupIdCounter, groupMemberIdCounter, scheduledWorkoutIdCounter,
              workoutResultIdCounter>>
serverVars == <<containers, counters, hashing, resp, ret>>
timerVars == <<timerType, settings, isRunning, timeLeft, round, intervalRef, mounted>>
vars == <<serverVars, timerVars>>

userVars == <<users, userIdCounter, hashing>>
recordVars == <<workouts, workoutIdCounter, personalRecords, prIdCounter>>
exerciseVars == <<exercises, exerciseIdCounter>>
groupVars == <<groups, groupIdCounter, groupMembers, groupMemberIdCounter>>
scheduleVars == <<scheduledWorkouts, scheduledWorkoutIdCounter,
                  workoutResults, workoutResultIdCounter>>

(* --------------------------- Map primitives ---------------------------- *)
EmptyMap == [k \in {} |-> {}]
MapSet(m, k, v) == [x \in DOMAIN m \cup {k} |-> IF x = k THEN v ELSE m[x]]
MapDelete(m, ks) == [x \in DOMAIN m \ ks |-> m[x]]
\* Array.from(m.values()).filter(p) as the set of keys of the rows kept
Min(S) == CHOOSE x \in S : \A y \in S : x <= y
\* what an operation resolves to when it finds no row: undefined
Absent == << >>
\* Map.get: the row under the key, or undefined
MapGet(m, k) == IF k \in DOMAIN m THEN <<m[k]>> ELSE Absent
\* the object spread {...existing, ...update}
Spread(existing, update) ==
  [f \in DOMAIN existing \cup DOMAIN update |->
     IF f \in DOMAIN update THEN update[f] ELSE existing[f]]


(* ------------------------------ arrays --------------------------------- *)
RECURSIVE KeysAscending(_)
\* the keys of a Map in iteration order
KeysAscending(S) ==
  IF S = {} THEN << >> ELSE <<Min(S)>> \o KeysAscending(S \ {Min(S)})

\* Array.from(m.values()).filter(...) for the rows whose keys are kept
Values(m, kept) == [i \in 1..Cardinality(kept) |-> m[KeysAscending(kept)[i]]]

\* what sort takes from the comparator (a, b) => ta - tb, ta and tb being
\* new Date(...).getTime(): the difference, and 0 where it is NaN because a
\* date is undefined
compare(ta, tb) == IF ta = undefined \/ tb = undefined THEN 0 ELSE ta - tb

\* Array.prototype.sort with the comparator (a, b) => a[field] - b[field] on
\* the times of the field: rows in ascending order of time, rows that compare
\* equal in their previous order
SortAscending(rows, field) ==
  LET n == Len(rows)
      before(j, i) ==
        \/ compare(rows[j][field], rows[i][field]) < 0
        \/ compare(rows[j][field], rows[i][field]) = 0 /\ j < i
      place(i) == 1 + Cardinality({j \in 1..n : before(j, i)})
  IN  [p \in 1..n |-> rows[CHOOSE i \in 1..n : place(i) = p]]

\* Array.prototype.sort with the comparator (a, b) => b[field] - a[field]
SortDescending(rows, field) ==
  LET n == Len(rows)
      before(j, i) ==
        \/ compare(rows[i][field], rows[j][field]) < 0
        \/ compare(rows[i][field], rows[j][field]) = 0 /\ j < i
      place(i) == 1 + Cardinality({j \in 1..n : before(j, i)})
  IN  [p \in 1..n |-> rows[CHOOSE i \in 1..n : place(i) = p]]

\* the comparator orders the rows consistently, as Array.prototype.sort
\* requires of it: rows that each compare equal to a third compare equal
consistentComparator(rows, field) ==
  \A i, j, k \in 1..Len(rows) :
    /\ compare(rows[i][field], rows[j][field]) = 0
    /\ compare(rows[j][field], rows[k][field]) = 0
    => compare(rows[i][field], rows[k][field]) = 0

\* the arrays sort may leave: the sorted one, and an order the implementation
\* chooses when the comparator is not consistent
sortOutcomes(rows, field, sorted) ==
  IF consistentComparator(rows, field)
  THEN {sorted}
  ELSE {[p \in 1..Len(rows) |-> rows[f[p]]] : f \in Permutations(1..Len(rows))}

\* Array.prototype.slice(0, end)
slice(rows, end) ==
  LET n == IF end < 0 THEN Len(rows) + end ELSE end
  IN  SubSeq(rows, 1, IF n < 0 THEN 0 ELSE IF n > Len(rows) THEN Len(rows) ELSE n)

\* Array.prototype.filter on an array, kept the indexes of the rows it keeps
Filter(rows, kept) == [p \in 1..Cardinality(kept) |-> rows[KeysAscending(kept)[p]]]

(* ------------------------------- users --------------------------------- *)
getUser(id) == MapGet(users, id)

\* the id of the first user with this username, or {} when there is none
getUserByUsername(username) ==
  LET found == {k \in DOMAIN users : users[k].username = username}
  IN  IF found = {} THEN {} ELSE {Min(found)}

createUser(insertUser, now) ==
  LET id == userIdCounter
      user == Spread(insertUser, [id |-> id, createdAt |-> now])
  IN  [user |-> user, users |-> MapSet(users, id, user), userIdCounter |-> id + 1]

bcryptHash(password) == <<"bcrypt", password>>
bcryptCompare(password, hash) == hash = bcryptHash(password)

\* a user as the rest of the destructuring that takes its password out
withoutPasswordKept(user) == user

\* const { password, ...userWithoutPassword } = user
withoutPassword(user) == [f \in DOMAIN user \ {"password"} |-> user[f]]


(* ------------------------- workouts and PRs ---------------------------- *)
getWorkout(id) == MapGet(workouts, id)
getPersonalRecord(id) == MapGet(personalRecords, id)

createWorkout(insertWorkout) ==
  LET id == workoutIdCounter
      workout == Spread(insertWorkout, [id |-> id])
  IN  [workout |-> workout, workouts |-> MapSet(workouts, id, workout),
       workoutIdCounter |-> id + 1]

\* updateWorkout storing the update in place of the merged row
updateWorkoutReplaces(id, workoutUpdate) ==
  IF id \notin DOMAIN workouts
  THEN [found |-> FALSE, workouts |-> workouts]
  ELSE [found |-> TRUE, workouts |-> MapSet(workouts, id, workoutUpdate)]

updateWorkout(id, workoutUpdate) ==
  IF id \notin DOMAIN workouts
  THEN [found |-> FALSE, workouts |-> workouts]
  ELSE [found |-> TRUE,
        workouts |-> MapSet(workouts, id, Spread(workouts[id], workoutUpdate))]

\* deleteWorkout returning true whatever it found
deleteWorkoutAlwaysTrue(id) ==
  [result |-> TRUE, workouts |-> MapDelete(workouts, {id})]

deleteWorkout(id) ==
  [result |-> id \in DOMAIN workouts, workouts |-> MapDelete(workouts, {id})]

createPersonalRecord(insertPR) ==
  LET id == prIdCounter
      pr == Spread(insertPR, [id |-> id])
  IN  [pr |-> pr, personalRecords |-> MapSet(personalRecords, id, pr),
       prIdCounter |-> id + 1]

\* updatePersonalRecord inserting the update when it finds no row
updatePersonalRecordUpserts(id, prUpdate) ==
  IF id \notin DOMAIN personalRecords
  THEN [found |-> FALSE, personalRecords |-> MapSet(personalRecords, id, prUpdate)]
  ELSE [found |-> TRUE,
        personalRecords |->
          MapSet(personalRecords, id, Spread(personalRecords[id], prUpdate))]

updatePersonalRecord(id, prUpdate) ==
  IF id \notin DOMAIN personalRecords
  THEN [found |-> FALSE, personalRecords |-> personalRecords]
  ELSE [found |-> TRUE,
        personalRecords |->
          MapSet(personalRecords, id, Spread(personalRecords[id], prUpdate))]

deletePersonalRecord(id) ==
  [result |-> id \in DOMAIN personalRecords,
   personalRecords |-> MapDelete(personalRecords, {id})]

\* the arrays the call may return
getWorkoutsByUserId(userId) ==
  LET rows == Values(workouts, {k \in DOMAIN workouts : workouts[k].userId = userId})
  IN  sortOutcomes(rows, "date", SortDescending(rows, "date"))

\* the arrays the call may return
getRecentWorkouts(userId, limit) ==
  LET rows == Values(workouts, {k \in DOMAIN workouts : workouts[k].userId = userId})
  IN  {slice(sorted, limit) :
         sorted \in sortOutcomes(rows, "date", SortDescending(rows, "date"))}

\* the arrays the call may return
getPersonalRecordsByUserId(userId) ==
  LET rows == Values(personalRecords,
                     {k \in DOMAIN personalRecords :
                        personalRecords[k].userId = userId})
  IN  sortOutcomes(rows, "date", SortDescending(rows, "date"))

\* the arrays the call may return
getPersonalRecordsByExerciseId(userId, exerciseId) ==
  LET rows == Values(personalRecords,
                     {k \in DOMAIN personalRecords :
                        /\ personalRecords[k].userId = userId
                        /\ personalRecords[k].exerciseId = exerciseId})
  IN  sortOutcomes(rows, "date", SortAscending(rows, "date"))

\* the arrays the call may return
getRecentPersonalRecords(userId, limit) ==
  LET rows == Values(personalRecords,
                     {k \in DOMAIN personalRecords :
                        personalRecords[k].userId = userId})
  IN  {slice(sorted, limit) :
         sorted \in sortOutcomes(rows, "date", SortDescending(rows, "date"))}

(* ------------------------------ strings -------------------------------- *)
uppercase == "ABCDEFGHIJKLMNOPQRSTUVWXYZ"
lowercase == "abcdefghijklmnopqrstuvwxyz"

\* the character String.prototype.toLowerCase puts for each capital letter
lowerOf ==
  [c \in {SubSeq(uppercase, i, i) : i \in 1..Len(uppercase)} |->
     LET i == CHOOSE k \in 1..Len(uppercase) : SubSeq(uppercase, k, k) = c
     IN  SubSeq(lowercase, i, i)]

\* String.prototype.toLowerCase: the characters of the string, every capital
\* letter replaced and every other character kept
toLowerCase(string) ==
  [i \in 1..Len(string) |->
     LET c == SubSeq(string, i, i)
     IN  IF c \in DOMAIN lowerOf THEN lowerOf[c] ELSE c]

\* String.prototype.includes on the characters of two strings
includes(characters, search) ==
  \E start \in 0..(Len(characters) - Len(search)) :
    \A i \in 1..Len(search) : characters[start + i] = search[i]

(* ----------------------------- exercises ------------------------------- *)
defaultExercises ==
  << [name |-> "Back Squat", category |-> "Weightlifting",
      description |->
        "A squat performed with a barbell across the shoulders behind the neck."],
     [name |-> "Clean & Jerk", category |-> "Weightlifting",
      description |->
        "Olympic weightlifting movement that combines lifting a barbell from the floor to the shoulders and then overhead."],
     [name |-> "Deadlift", category |-> "Weightlifting",
      description |->
        "A weight training exercise where a loaded barbell is lifted from the ground to hip level."],
     [name |-> "Pull-up", category |-> "Gymnastics",
      description |->
        "An upper-body compound exercise where you hang from a bar and pull your body up until your chin is over the bar."],
     [name |-> "Handstand Push-up", category |-> "Gymnastics",
      description |->
        "A push-up performed while in a handstand position with the feet against a wall for balance."],
     [name |-> "Muscle-up", category |-> "Gymnastics",
      description |->
        "A movement that combines a pull-up with a dip to transition from below a bar or rings to above it."],
     [name |-> "Double-Under", category |-> "Cardio",
      description |->
        "A jump rope exercise where the rope passes under the feet twice in a single jump."],
     [name |-> "Running", category |-> "Cardio",
      description |->
        "Continuous movement on foot, used for cardiovascular endurance training."],
     [name |-> "Rowing", category |-> "Cardio",
      description |->
        "Exercise on a rowing machine that provides a full-body workout."],
     [name |-> "Thruster", category |-> "Metcons",
      description |->
        "A compound movement combining a front squat with a push press."],
     [name |-> "Wall Ball", category |-> "Metcons",
      description |->
        "A movement where you throw a medicine ball to a target on the wall from a squat position."],
     [name |-> "Burpee", category |-> "Metcons",
      description |->
        "A full-body exercise that combines a squat, push-up, and jump."] >>

\* initializeExercises leaving the last default exercise out
initializeExercisesButLast ==
  [exercises |-> [i \in 1..(Len(defaultExercises) - 1) |->
                    Spread(defaultExercises[i], [id |-> i])],
   exerciseIdCounter |-> Len(defaultExercises)]

\* createExercise applied to each default exercise in turn, from counter 1
initializeExercises ==
  [exercises |-> [i \in 1..Len(defaultExercises) |->
                    Spread(defaultExercises[i], [id |-> i])],
   exerciseIdCounter |-> Len(defaultExercises) + 1]

getExercise(id) == MapGet(exercises, id)

\* searchExercises that looks at the names alone
searchExercisesNamesOnly(query) ==
  LET lowercaseQuery == toLowerCase(query)
  IN  Values(exercises,
             {k \in DOMAIN exercises :
                includes(toLowerCase(exercises[k].name), lowercaseQuery)})

searchExercises(query) ==
  LET lowercaseQuery == toLowerCase(query)
  IN  Values(exercises,
             {k \in DOMAIN exercises :
                \/ includes(toLowerCase(exercises[k].name), lowercaseQuery)
                \/ includes(toLowerCase(exercises[k].description), lowercaseQuery)})

createExercise(insertExercise) ==
  LET id == exerciseIdCounter
      exercise == Spread(insertExercise, [id |-> id])
  IN  [exercise |-> exercise, exercises |-> MapSet(exercises, id, exercise),
       exerciseIdCounter |-> id + 1]

(* ------------------------------- groups -------------------------------- *)
getGroup(id) == MapGet(groups, id)

\* the keys of the groups whose id is among the groupIds of userId's member rows
getGroupsForUser(userId) ==
  LET membershipGroups ==
        {groupMembers[m].groupId :
           m \in {k \in DOMAIN groupMembers : groupMembers[k].userId = userId}}
  IN  {g \in DOMAIN groups : groups[g].id \in membershipGroups}

\* createGroup returning a row other than the one it stores
createGroupStoresOther(insertGroup, now) ==
  LET id == groupIdCounter
      group == Spread(insertGroup, [id |-> id, createdAt |-> now])
  IN  [group |-> group, groups |-> MapSet(groups, id, Spread(insertGroup, [id |-> id])),
       groupIdCounter |-> id + 1]

createGroup(insertGroup, now) ==
  LET id == groupIdCounter
      group == Spread(insertGroup, [id |-> id, createdAt |-> now])
  IN  [group |-> group, groups |-> MapSet(groups, id, group),
       groupIdCounter |-> id + 1]

updateGroup(id, groupUpdate) ==
  IF id \notin DOMAIN groups
  THEN [found |-> FALSE, groups |-> groups]
  ELSE [found |-> TRUE,
        groups |-> MapSet(groups, id, Spread(groups[id], groupUpdate))]

\* deleteGroup without its first cascade
deleteGroupMemberRowsNone(id) == {}

\* the member rows deleteGroup removes
deleteGroupMemberRows(id) ==
  {groupMembers[k].id : k \in {m \in DOMAIN groupMembers : groupMembers[m].groupId = id}}

\* deleteGroup stopping after its first cascade
deleteGroupScheduledRowsNone(id) == {}

\* the scheduled workout rows deleteGroup removes
deleteGroupScheduledRows(id) ==
  {scheduledWorkouts[k].id :
     k \in {w \in DOMAIN scheduledWorkouts : scheduledWorkouts[w].groupId = id}}

deleteGroup(id) ==
  [result |-> id \in DOMAIN groups,
   groupMembers |-> MapDelete(groupMembers, deleteGroupMemberRows(id)),
   scheduledWorkouts |-> MapDelete(scheduledWorkouts, deleteGroupScheduledRows(id)),
   groups |-> MapDelete(groups, {id})]

addGroupMember(insertMember, now) ==
  LET id == groupMemberIdCounter
      member == Spread(insertMember, [id |-> id, joinedAt |-> now])
  IN  [member |-> member, groupMembers |-> MapSet(groupMembers, id, member),
       groupMemberIdCounter |-> id + 1]

removeGroupMember(groupId, userId) ==
  LET found == {k \in DOMAIN groupMembers :
                  groupMembers[k].groupId = groupId /\ groupMembers[k].userId = userId}
  IN  IF found = {}
      THEN [result |-> FALSE, groupMembers |-> groupMembers]
      ELSE [result |-> groupMembers[Min(found)].id \in DOMAIN groupMembers,
            groupMembers |-> MapDelete(groupMembers, {groupMembers[Min(found)].id})]

getGroupMembers(groupId) ==
  SortDescending(
    Values(groupMembers, {k \in DOMAIN groupMembers : groupMembers[k].groupId = groupId}),
    "joinedAt")

(* ----------------- scheduled workouts and their results ---------------- *)
getScheduledWorkout(id) == MapGet(scheduledWorkouts, id)
getWorkoutResult(id) == MapGet(workoutResults, id)

updateScheduledWorkout(id, workoutUpdate) ==
  IF id \notin DOMAIN scheduledWorkouts
  THEN [found |-> FALSE, scheduledWorkouts |-> scheduledWorkouts]
  ELSE [found |-> TRUE,
        scheduledWorkouts |->
          MapSet(scheduledWorkouts, id, Spread(scheduledWorkouts[id], workoutUpdate))]

updateWorkoutResult(id, resultUpdate) ==
  IF id \notin DOMAIN workoutResults
  THEN [found |-> FALSE, workoutResults |-> workoutResults]
  ELSE [found |-> TRUE,
        workoutResults |->
          MapSet(workoutResults, id, Spread(workoutResults[id], resultUpdate))]

createScheduledWorkout(insertWorkout, now) ==
  LET id == scheduledWorkoutIdCounter
      workout == Spread(insertWorkout, [id |-> id, createdAt |-> now])
  IN  [workout |-> workout,
       scheduledWorkouts |-> MapSet(scheduledWorkouts, id, workout),
       scheduledWorkoutIdCounter |-> id + 1]

\* now is the value new Date() takes during the call
getUpcomingWorkoutsForUser(userId, now) ==
  LET userGroupIds == {groups[g].id : g \in getGroupsForUser(userId)}
  IN  SortAscending(
        Values(scheduledWorkouts,
               {k \in DOMAIN scheduledWorkouts :
                  /\ scheduledWorkouts[k].groupId \in userGroupIds
                  /\ scheduledWorkouts[k].scheduledDate >= now}),
        "scheduledDate")

\* deleteScheduledWorkout with a filter that keeps every result
deleteScheduledWorkoutResultRowsAll(id) ==
  {workoutResults[k].id : k \in DOMAIN workoutResults}

\* the result rows deleteScheduledWorkout removes
deleteScheduledWorkoutResultRows(id) ==
  {workoutResults[k].id :
     k \in {r \in DOMAIN workoutResults : workoutResults[r].scheduledWorkoutId = id}}

deleteScheduledWorkout(id) ==
  [result |-> id \in DOMAIN scheduledWorkouts,
   workoutResults |-> MapDelete(workoutResults, deleteScheduledWorkoutResultRows(id)),
   scheduledWorkouts |-> MapDelete(scheduledWorkouts, {id})]

createWorkoutResult(insertResult, now) ==
  LET id == workoutResultIdCounter
      result == Spread(insertResult, [id |-> id, completedAt |-> now])
  IN  [result |-> result,
       workoutResults |-> MapSet(workoutResults, id, result),
       workoutResultIdCounter |-> id + 1]

getWorkoutResultsByScheduledWorkout(scheduledWorkoutId) ==
  SortDescending(
    Values(workoutResults,
           {k \in DOMAIN workoutResults :
              workoutResults[k].scheduledWorkoutId = scheduledWorkoutId}),
    "completedAt")

(* ------------------------------ the timer ------------------------------ *)
timerTypes == {"Countdown", "Stopwatch", "EMOM", "Tabata", "AMRAP"}

\* useState of Timer; enableSound, which only mutes the beep, is left out
initialSettings ==
  [minutes |-> 5, seconds |-> 0, rounds |-> 10, workTime |-> 20, restTime |-> 10]

\* intervalRef.current before any interval is set; an interval is the timerType
\* and the settings its callback closed over, active until it is cleared
null == [active |-> FALSE]

\* value || default
orDefault(value, default) == IF value = 0 THEN default ELSE value

\* the time the effect and handleReset set for a timer type; the effect has
\* no branch for the Stopwatch and keeps previous, handleReset sets 0
initialTime(type, s, previous) ==
  CASE type \in {"Countdown", "AMRAP"} -> s.minutes * 60 + s.seconds
    [] type = "EMOM" -> 60
    [] type = "Tabata" -> orDefault(s.workTime, 20)
    [] OTHER -> previous

\* clearInterval(intervalRef.current)
clearInterval(ref) == IF ref.active THEN [ref EXCEPT !.active = FALSE] ELSE ref

\* useEffect on [timerType, settings]: the cleanup of the effect before, then
\* the time of the new type and settings
Effect(type, s) ==
  /\ intervalRef' = clearInterval(intervalRef)
  /\ timeLeft' = initialTime(type, s, timeLeft)

\* a timer type button of Timer; setting the type it has renders nothing
SetActiveTimer(type) ==
  /\ mounted
  /\ type # timerType
  /\ timerType' = type
  /\ Effect(type, settings)
  /\ UNCHANGED <<settings, isRunning, round, mounted, serverVars>>

\* the settings each control of TimerControls hands to onSettingsChange: the
\* minutes and seconds buttons, the two inputs, and the sound switch, which
\* hands over a new object of the same minutes and seconds
settingsChanges(s) ==
  {[s EXCEPT !.minutes = IF s.minutes - 1 < 0 THEN 0 ELSE s.minutes - 1],
   [s EXCEPT !.minutes = IF s.minutes + 1 > 60 THEN 60 ELSE s.minutes + 1],
   [s EXCEPT !.seconds = IF s.seconds - 5 < 0 THEN 0 ELSE s.seconds - 5],
   [s EXCEPT !.seconds = IF s.seconds + 5 > 59 THEN 59 ELSE s.seconds + 5],
   [s EXCEPT !.minutes = 0], [s EXCEPT !.seconds = 0], s}

\* onSettingsChange: a new settings object, so the effect runs again
OnSettingsChange(newSettings) ==
  /\ mounted
  /\ newSettings.minutes <= MaxMinutes /\ newSettings.seconds <= MaxSeconds
  /\ settings' = newSettings
  /\ Effect(timerType, newSettings)
  /\ UNCHANGED <<timerType, isRunning, round, mounted, serverVars>>

handleStartStop ==
  /\ mounted
  /\ intervalRef' = IF isRunning
                    THEN null
                    ELSE [active |-> TRUE, timerType |-> timerType, settings |-> settings]
  /\ isRunning' = ~isRunning
  /\ UNCHANGED <<timerType, settings, timeLeft, round, mounted, serverVars>>

handleReset ==
  /\ mounted
  /\ intervalRef' = clearInterval(intervalRef)
  /\ isRunning' = FALSE
  /\ round' = 1
  /\ timeLeft' = initialTime(timerType, settings, 0)
  /\ UNCHANGED <<timerType, settings, mounted, serverVars>>

\* an updater that takes two seconds off
countDownByTwo(prev) == prev - 2

\* what the updater returns while more than a second is left
countDown(prev) == prev - 1

\* the interval's callback and the updater it hands to setTimeLeft, with the
\* timerType and settings of the render that started the interval. In the
\* Tabata branch the updater reads r, a name bound nowhere: the ReferenceError
\* leaves the render without a boundary to catch it and the tree unmounts,
\* whose cleanup clears the interval.
Tick ==
  /\ mounted
  /\ intervalRef.active
  /\ LET type == intervalRef.timerType
         s == intervalRef.settings
         stops == /\ intervalRef' = clearInterval(intervalRef)
                  /\ isRunning' = FALSE
                  /\ timeLeft' = 0
                  /\ UNCHANGED <<round, mounted>>
     IN  IF timeLeft <= 1
         THEN CASE type \in {"Countdown", "Stopwatch", "AMRAP"} -> stops
                [] type = "EMOM" ->
                     /\ round < MaxRound
                     /\ round' = round + 1
                     /\ timeLeft' = 60
                     /\ UNCHANGED <<intervalRef, isRunning, mounted>>
                [] type = "Tabata" ->
                     IF timeLeft = s.workTime
                     THEN /\ timeLeft' = orDefault(s.restTime, 10)
                          /\ UNCHANGED <<intervalRef, isRunning, round, mounted>>
                     ELSE /\ mounted' = FALSE
                          /\ intervalRef' = clearInterval(intervalRef)
                          /\ UNCHANGED <<isRunning, timeLeft, round>>
         ELSE /\ timeLeft' = countDown(timeLeft)
              /\ UNCHANGED <<intervalRef, isRunning, round, mounted>>
  /\ UNCHANGED <<timerType, settings, serverVars>>

(* ------------------------------- Init ---------------------------------- *)
\* a JSON body is the sequence of the objects it carries: one for an object,
\* one per element for an array, none for a message or an absent value
NoBody == << >>
NoResponse ==
  [route |-> "none", user |-> NoSession, id |-> 0, status |-> 0, body |-> NoBody]

Init ==
  /\ users = EmptyMap /\ workouts = EmptyMap /\ personalRecords = EmptyMap
  /\ groups = EmptyMap /\ groupMembers = EmptyMap
  /\ scheduledWorkouts = EmptyMap /\ workoutResults = EmptyMap
  /\ userIdCounter = 1 /\ workoutIdCounter = 1 /\ prIdCounter = 1
  /\ groupIdCounter = 1 /\ groupMemberIdCounter = 1
  /\ scheduledWorkoutIdCounter = 1 /\ workoutResultIdCounter = 1
  /\ exercises = initializeExercises.exercises
  /\ exerciseIdCounter = initializeExercises.exerciseIdCounter
  /\ hashing = EmptyBag
  /\ resp = NoResponse
  /\ ret = "none"
  /\ timerType = "Countdown"
  /\ settings = initialSettings
  /\ isRunning = FALSE
  /\ timeLeft = initialTime("Countdown", initialSettings, 0)
  /\ round = 1
  /\ intervalRef = null
  /\ mounted = TRUE


(* --------------------------- request inputs ---------------------------- *)
UserIds == 1..MaxUsers
WorkoutIds == 1..MaxWorkouts
PRIds == 1..MaxPRs
GroupIds == 1..MaxGroups
ScheduledIds == 1..MaxScheduled
\* a session names a registered user (login sets it; users are never deleted)
Requesters == DOMAIN users
\* JSON bodies of the PUT routes: no field, or one of the fields the row has
EmptyBody == [f \in {} |-> 0]
WorkoutBodies ==
  {EmptyBody} \cup {[date |-> d] : d \in Dates}
    \cup {[userId |-> x] : x \in UserIds} \cup {[id |-> i] : i \in 1..(MaxWorkouts + 1)}
PRBodies ==
  {EmptyBody} \cup {[date |-> d] : d \in Dates}
    \cup {[userId |-> x] : x \in UserIds} \cup {[id |-> i] : i \in 1..(MaxPRs + 1)}
GroupBodies ==
  {EmptyBody} \cup {[coachId |-> x] : x \in UserIds} \cup {[id |-> i] : i \in 1..(MaxGroups + 1)}

RespondJson(route, u, id, status, body) ==
  resp' = [route |-> route, user |-> u, id |-> id, status |-> status, body |-> body]

Respond(route, u, id, status) == RespondJson(route, u, id, status, NoBody)

(* ----------------------------- middleware ------------------------------ *)
\* 0 stands for next(): the request goes on to the handler
requireAuth(u) == IF u = NoSession THEN 401 ELSE 0

requireCoach(u) ==
  IF u = NoSession THEN 401
  ELSE IF u \notin DOMAIN users \/ users[u].role \notin {"coach", "admin"} THEN 403
  ELSE 0

\* the ownership check reduced to what requireCoach already established
ownsGroupOrAdminAnyCoach(u, group) ==
  u \in DOMAIN users /\ users[u].role \in {"coach", "admin"}

\* "Check if coach owns this group": the coach of the group, or else an admin
ownsGroupOrAdmin(u, group) ==
  group.coachId = u \/ (u \in DOMAIN users /\ users[u].role = "admin")

\* userGroups.some(g => g.id === groupId)
isMember(u, groupId) == \E g \in getGroupsForUser(u) : groups[g].id = groupId

\* a request without a session stops in the middleware of a guarded route,
\* before the handler reads its parameters
guardedRoutes ==
  {"POST /api/workouts", "PUT /api/workouts/:id", "DELETE /api/workouts/:id",
   "POST /api/prs", "PUT /api/prs/:id", "DELETE /api/prs/:id",
   "POST /api/groups", "GET /api/groups/:id", "PUT /api/groups/:id",
   "DELETE /api/groups/:id", "POST /api/groups/:groupId/members",
   "DELETE /api/groups/:groupId/members/:userId", "GET /api/groups/:groupId/members",
   "POST /api/scheduled-workouts", "GET /api/scheduled-workouts/group/:groupId",
   "DELETE /api/scheduled-workouts/:id", "POST /api/workout-results",
   "GET /api/workout-results/scheduled/:scheduledWorkoutId"}

Unauthenticated(route) ==
  /\ Respond(route, NoSession, 0, requireAuth(NoSession))
  /\ ret' = "none"
  /\ UNCHANGED <<containers, counters, hashing>>
  /\ UNCHANGED timerVars

(* --------------------------- POST /api/auth/register ------------------- *)
\* up to the await of bcrypt.hash
PostAuthRegisterCheck(userData) ==
  /\ IF getUserByUsername(userData.username) # {}
     THEN /\ Respond("POST /api/auth/register", NoSession, 0, 400)
          /\ hashing' = hashing
     ELSE /\ userIdCounter + BagCardinality(hashing) <= MaxUsers
          /\ hashing' = hashing (+) SetToBag({userData})
          /\ Respond("POST /api/auth/register", NoSession, 0, 0)
  /\ ret' = "none"
  /\ UNCHANGED <<users, userIdCounter, recordVars, exerciseVars, groupVars, scheduleVars>>
  /\ UNCHANGED timerVars

\* from the resolution of bcrypt.hash on
PostAuthRegisterCreate(userData) ==
  /\ BagIn(userData, hashing)
  /\ \E now \in Dates : LET r == createUser(
         Spread(userData, [password |-> bcryptHash(userData.password)]), now)
     IN  /\ users' = r.users
         /\ userIdCounter' = r.userIdCounter
         /\ RespondJson("POST /api/auth/register", NoSession, r.user.id, 201,
                         <<withoutPassword(r.user)>>)
  /\ hashing' = hashing (-) SetToBag({userData})
  /\ ret' = "none"
  /\ UNCHANGED <<recordVars, exerciseVars, groupVars, scheduleVars>>
  /\ UNCHANGED timerVars

(* ------------------------------ workouts ------------------------------- *)
PostWorkouts(u, date) ==
  /\ IF requireAuth(u) # 0
     THEN /\ Respond("POST /api/workouts", u, 0, requireAuth(u))
          /\ UNCHANGED <<workouts, workoutIdCounter>>
     ELSE /\ workoutIdCounter <= MaxWorkouts
          /\ LET r == createWorkout([userId |-> u, date |-> date])
             IN  /\ workouts' = r.workouts
                 /\ workoutIdCounter' = r.workoutIdCounter
                 /\ Respond("POST /api/workouts", u, r.workout.id, 201)
  /\ ret' = "none"
  /\ UNCHANGED <<userVars, personalRecords, prIdCounter, exerciseVars, groupVars,
                 scheduleVars>>
  /\ UNCHANGED timerVars

\* {...req.body, date: req.body.date ? new Date(req.body.date) : undefined}
updateData(body) ==
  Spread(body, [date |-> IF "date" \in DOMAIN body THEN body.date ELSE undefined])

\* the workout routes without "Check if workout belongs to authenticated user"
workoutOwnerStatusNoOwnerCheck(u, id) ==
  IF requireAuth(u) # 0 THEN requireAuth(u)
  ELSE IF id \notin DOMAIN workouts THEN 404
  ELSE 200

\* the status of PUT and DELETE /api/workouts/:id
workoutOwnerStatus(u, id) ==
  IF requireAuth(u) # 0 THEN requireAuth(u)
  ELSE IF id \notin DOMAIN workouts THEN 404
  ELSE IF workouts[id].userId # u THEN 403
  ELSE 200

PutWorkoutsId(u, id, body) ==
  /\ Respond("PUT /api/workouts/:id", u, id, workoutOwnerStatus(u, id))
  /\ workouts' = IF workoutOwnerStatus(u, id) = 200
                 THEN updateWorkout(id, updateData(body)).workouts
                 ELSE workouts
  /\ ret' = "none"
  /\ UNCHANGED <<userVars, workoutIdCounter, personalRecords, prIdCounter,
                 exerciseVars, groupVars, scheduleVars>>
  /\ UNCHANGED timerVars

DeleteWorkoutsId(u, id) ==
  /\ Respond("DELETE /api/workouts/:id", u, id, workoutOwnerStatus(u, id))
  /\ IF workoutOwnerStatus(u, id) = 200
     THEN /\ workouts' = deleteWorkout(id).workouts
          /\ ret' = IF deleteWorkout(id).result THEN "true" ELSE "false"
     ELSE /\ workouts' = workouts
          /\ ret' = "none"
  /\ UNCHANGED <<userVars, workoutIdCounter, personalRecords, prIdCounter,
                 exerciseVars, groupVars, scheduleVars>>
  /\ UNCHANGED timerVars

(* -------------------------- personal records --------------------------- *)
PostPrs(u, exerciseId, date) ==
  /\ IF requireAuth(u) # 0
     THEN /\ Respond("POST /api/prs", u, 0, requireAuth(u))
          /\ UNCHANGED <<personalRecords, prIdCounter>>
     ELSE IF exerciseId \notin DOMAIN exercises
     THEN /\ Respond("POST /api/prs", u, 0, 404)
          /\ UNCHANGED <<personalRecords, prIdCounter>>
     ELSE /\ prIdCounter <= MaxPRs
          /\ LET r == createPersonalRecord(
                        [userId |-> u, exerciseId |-> exerciseId, date |-> date])
             IN  /\ personalRecords' = r.personalRecords
                 /\ prIdCounter' = r.prIdCounter
                 /\ Respond("POST /api/prs", u, r.pr.id, 201)
  /\ ret' = "none"
  /\ UNCHANGED <<userVars, workouts, workoutIdCounter, exerciseVars, groupVars,
                 scheduleVars>>
  /\ UNCHANGED timerVars

\* the status of PUT and DELETE /api/prs/:id
prOwnerStatus(u, id) ==
  IF requireAuth(u) # 0 THEN requireAuth(u)
  ELSE IF id \notin DOMAIN personalRecords THEN 404
  ELSE IF personalRecords[id].userId # u THEN 403
  ELSE 200

PutPrsId(u, id, body) ==
  /\ Respond("PUT /api/prs/:id", u, id, prOwnerStatus(u, id))
  /\ personalRecords' = IF prOwnerStatus(u, id) = 200
                        THEN updatePersonalRecord(id, updateData(body)).personalRecords
                        ELSE personalRecords
  /\ ret' = "none"
  /\ UNCHANGED <<userVars, workouts, workoutIdCounter, prIdCounter,
                 exerciseVars, groupVars, scheduleVars>>
  /\ UNCHANGED timerVars

DeletePrsId(u, id) ==
  /\ Respond("DELETE /api/prs/:id", u, id, prOwnerStatus(u, id))
  /\ IF prOwnerStatus(u, id) = 200
     THEN /\ personalRecords' = deletePersonalRecord(id).personalRecords
          /\ ret' = IF deletePersonalRecord(id).result THEN "true" ELSE "false"
     ELSE /\ personalRecords' = personalRecords
          /\ ret' = "none"
  /\ UNCHANGED <<userVars, workouts, workoutIdCounter, prIdCounter,
                 exerciseVars, groupVars, scheduleVars>>
  /\ UNCHANGED timerVars

(* ------------------------------- groups -------------------------------- *)
PostGroups(u) ==
  /\ IF requireCoach(u) # 0
     THEN /\ Respond("POST /api/groups", u, 0, requireCoach(u))
          /\ UNCHANGED <<groups, groupIdCounter>>
     ELSE /\ groupIdCounter <= MaxGroups
          /\ \E now \in Dates : LET r == createGroup([coachId |-> u], now)
             IN  /\ groups' = r.groups
                 /\ groupIdCounter' = r.groupIdCounter
                 /\ Respond("POST /api/groups", u, r.group.id, 201)
  /\ ret' = "none"
  /\ UNCHANGED <<userVars, recordVars, exerciseVars, groupMembers,
                 groupMemberIdCounter, scheduleVars>>
  /\ UNCHANGED timerVars

\* GET /api/groups/:id
getGroupStatus(u, id) ==
  IF requireAuth(u) # 0 THEN requireAuth(u)
  ELSE IF id \notin DOMAIN groups THEN 404
  ELSE LET isCoach == groups[id].coachId = u
           isAdmin == u \in DOMAIN users /\ users[u].role = "admin"
       IN  IF ~isCoach /\ ~isAdmin /\ ~isMember(u, id) THEN 403 ELSE 200

GetGroupsId(u, id) ==
  /\ Respond("GET /api/groups/:id", u, id, getGroupStatus(u, id))
  /\ ret' = "none"
  /\ UNCHANGED <<containers, counters, hashing>>
  /\ UNCHANGED timerVars

\* the members route with the membership check ahead of the lookup of the group
getGroupMembersStatusCheckFirst(u, groupId) ==
  IF requireAuth(u) # 0 THEN requireAuth(u)
  ELSE IF ~(groupId \in DOMAIN groups /\ groups[groupId].coachId = u)
          /\ ~isMember(u, groupId)
          /\ ~(u \in DOMAIN users /\ users[u].role = "admin")
  THEN 403
  ELSE IF groupId \notin DOMAIN groups THEN 404
  ELSE 200

\* GET /api/groups/:groupId/members and GET /api/scheduled-workouts/group/:groupId
getGroupMembersStatus(u, groupId) ==
  IF requireAuth(u) # 0 THEN requireAuth(u)
  ELSE IF groupId \notin DOMAIN groups THEN 404
  ELSE LET isCoach == groups[groupId].coachId = u
       IN  IF ~isCoach /\ ~isMember(u, groupId)
              /\ ~(u \in DOMAIN users /\ users[u].role = "admin")
           THEN 403 ELSE 200

\* the row's user is in the store
hasUser(row) == row.userId \in DOMAIN users

\* each row with the info of its user; rows whose user is missing are dropped
withUserInfo(rows) ==
  LET kept == Filter(rows, {i \in 1..Len(rows) : hasUser(rows[i])})
  IN  [i \in 1..Len(kept) |->
         Spread(kept[i], [user |-> withoutPassword(users[kept[i].userId])])]

GetGroupsMembers(u, groupId) ==
  /\ RespondJson("GET /api/groups/:groupId/members", u, groupId,
                 getGroupMembersStatus(u, groupId),
                 IF getGroupMembersStatus(u, groupId) = 200
                 THEN withUserInfo(getGroupMembers(groupId)) ELSE NoBody)
  /\ ret' = "none"
  /\ UNCHANGED <<containers, counters, hashing>>
  /\ UNCHANGED timerVars

GetScheduledWorkoutsGroup(u, groupId) ==
  /\ Respond("GET /api/scheduled-workouts/group/:groupId", u, groupId,
             getGroupMembersStatus(u, groupId))
  /\ ret' = "none"
  /\ UNCHANGED <<containers, counters, hashing>>
  /\ UNCHANGED timerVars

\* the status of PUT and DELETE /api/groups/:id
groupCoachStatus(u, id) ==
  IF requireCoach(u) # 0 THEN requireCoach(u)
  ELSE IF id \notin DOMAIN groups THEN 404
  ELSE IF ~ownsGroupOrAdmin(u, groups[id]) THEN 403
  ELSE 200

PutGroupsId(u, id, body) ==
  /\ Respond("PUT /api/groups/:id", u, id, groupCoachStatus(u, id))
  /\ groups' = IF groupCoachStatus(u, id) = 200
               THEN updateGroup(id, body).groups
               ELSE groups
  /\ ret' = "none"
  /\ UNCHANGED <<userVars, recordVars, exerciseVars, groupIdCounter, groupMembers,
                 groupMemberIdCounter, scheduleVars>>
  /\ UNCHANGED timerVars

DeleteGroupsId(u, id) ==
  /\ Respond("DELETE /api/groups/:id", u, id, groupCoachStatus(u, id))
  /\ IF groupCoachStatus(u, id) = 200
     THEN /\ groups' = deleteGroup(id).groups
          /\ groupMembers' = deleteGroup(id).groupMembers
          /\ scheduledWorkouts' = deleteGroup(id).scheduledWorkouts
          /\ ret' = IF deleteGroup(id).result THEN "true" ELSE "false"
     ELSE /\ UNCHANGED <<groups, groupMembers, scheduledWorkouts>>
          /\ ret' = "none"
  /\ UNCHANGED <<userVars, recordVars, exerciseVars, groupIdCounter,
                 groupMemberIdCounter, scheduledWorkoutIdCounter, workoutResults,
                 workoutResultIdCounter>>
  /\ UNCHANGED timerVars

(* ---------------------------- group members ---------------------------- *)
\* POST /api/groups/:groupId/members, up to the insert
postMemberStatus(u, groupId, userId) ==
  IF requireCoach(u) # 0 THEN requireCoach(u)
  ELSE IF userId = 0 THEN 400
  ELSE IF groupId \notin DOMAIN groups THEN 404
  ELSE IF ~ownsGroupOrAdmin(u, groups[groupId]) THEN 403
  ELSE IF userId \notin DOMAIN users THEN 404
  ELSE 201

PostGroupsMembers(u, groupId, userId) ==
  /\ Respond("POST /api/groups/:groupId/members", u, groupId,
             postMemberStatus(u, groupId, userId))
  /\ IF postMemberStatus(u, groupId, userId) = 201
     THEN /\ groupMemberIdCounter <= MaxMembers
          /\ \E now \in Dates : LET r == addGroupMember(
                                  [groupId |-> groupId, userId |-> userId], now)
             IN  /\ groupMembers' = r.groupMembers
                 /\ groupMemberIdCounter' = r.groupMemberIdCounter
     ELSE UNCHANGED <<groupMembers, groupMemberIdCounter>>
  /\ ret' = "none"
  /\ UNCHANGED <<userVars, recordVars, exerciseVars, groups, groupIdCounter,
                 scheduleVars>>
  /\ UNCHANGED timerVars

DeleteGroupsMembers(u, groupId, userId) ==
  /\ IF groupCoachStatus(u, groupId) # 200
     THEN /\ Respond("DELETE /api/groups/:groupId/members/:userId", u, groupId,
                     groupCoachStatus(u, groupId))
          /\ groupMembers' = groupMembers
          /\ ret' = "none"
     ELSE LET r == removeGroupMember(groupId, userId)
          IN  /\ Respond("DELETE /api/groups/:groupId/members/:userId", u, groupId,
                         IF r.result THEN 200 ELSE 404)
              /\ groupMembers' = r.groupMembers
              /\ ret' = IF r.result THEN "true" ELSE "false"
  /\ UNCHANGED <<userVars, recordVars, exerciseVars, groups, groupIdCounter,
                 groupMemberIdCounter, scheduleVars>>
  /\ UNCHANGED timerVars

(* -------------------------- scheduled workouts ------------------------- *)
\* POST /api/scheduled-workouts, up to the insert
postScheduledStatus(u, workoutId, groupId) ==
  IF requireCoach(u) # 0 THEN requireCoach(u)
  ELSE IF workoutId = 0 \/ groupId = 0 THEN 400
  ELSE IF workoutId \notin DOMAIN workouts THEN 404
  ELSE IF groupId \notin DOMAIN groups THEN 404
  ELSE IF ~ownsGroupOrAdmin(u, groups[groupId]) THEN 403
  ELSE 201

PostScheduledWorkouts(u, workoutId, groupId) ==
  /\ Respond("POST /api/scheduled-workouts", u, groupId,
             postScheduledStatus(u, workoutId, groupId))
  /\ IF postScheduledStatus(u, workoutId, groupId) = 201
     THEN /\ scheduledWorkoutIdCounter <= MaxScheduled
          /\ \E now \in Dates, scheduledDate \in Dates :
               LET r == createScheduledWorkout(
                          [workoutId |-> workoutId, groupId |-> groupId,
                           scheduledDate |-> scheduledDate, createdBy |-> u],
                          now)
             IN  /\ scheduledWorkouts' = r.scheduledWorkouts
                 /\ scheduledWorkoutIdCounter' = r.scheduledWorkoutIdCounter
     ELSE UNCHANGED <<scheduledWorkouts, scheduledWorkoutIdCounter>>
  /\ ret' = "none"
  /\ UNCHANGED <<userVars, recordVars, exerciseVars, groupVars, workoutResults,
                 workoutResultIdCounter>>
  /\ UNCHANGED timerVars

\* DELETE /api/scheduled-workouts/:id without its creator, coach or admin check
deleteScheduledStatusNoOwnerCheck(u, id) ==
  IF requireCoach(u) # 0 THEN requireCoach(u)
  ELSE IF id \notin DOMAIN scheduledWorkouts THEN 404
  ELSE 200

\* DELETE /api/scheduled-workouts/:id
deleteScheduledStatus(u, id) ==
  IF requireCoach(u) # 0 THEN requireCoach(u)
  ELSE IF id \notin DOMAIN scheduledWorkouts THEN 404
  ELSE LET scheduledWorkout == scheduledWorkouts[id]
           isCreator == scheduledWorkout.createdBy = u
           isGroupCoach == /\ scheduledWorkout.groupId \in DOMAIN groups
                           /\ groups[scheduledWorkout.groupId].coachId = u
       IN  IF ~isCreator /\ ~isGroupCoach /\ users[u].role # "admin"
           THEN 403 ELSE 200

DeleteScheduledWorkoutsId(u, id) ==
  /\ Respond("DELETE /api/scheduled-workouts/:id", u, id, deleteScheduledStatus(u, id))
  /\ IF deleteScheduledStatus(u, id) = 200
     THEN /\ scheduledWorkouts' = deleteScheduledWorkout(id).scheduledWorkouts
          /\ workoutResults' = deleteScheduledWorkout(id).workoutResults
          /\ ret' = IF deleteScheduledWorkout(id).result THEN "true" ELSE "false"
     ELSE /\ UNCHANGED <<scheduledWorkouts, workoutResults>>
          /\ ret' = "none"
  /\ UNCHANGED <<userVars, recordVars, exerciseVars, groupVars,
                 scheduledWorkoutIdCounter, workoutResultIdCounter>>
  /\ UNCHANGED timerVars

(* ---------------------------- workout results -------------------------- *)
\* POST /api/workout-results, up to the insert
postResultStatus(u, scheduledWorkoutId) ==
  IF requireAuth(u) # 0 THEN requireAuth(u)
  ELSE IF scheduledWorkoutId = 0 THEN 400
  ELSE IF scheduledWorkoutId \notin DOMAIN scheduledWorkouts THEN 404
  ELSE LET scheduledWorkout == scheduledWorkouts[scheduledWorkoutId]
           isCoach == scheduledWorkout.createdBy = u
           isAdmin == u \in DOMAIN users /\ users[u].role = "admin"
       IN  IF ~isMember(u, scheduledWorkout.groupId) /\ ~isCoach /\ ~isAdmin
           THEN 403 ELSE 201

PostWorkoutResults(u, scheduledWorkoutId) ==
  /\ Respond("POST /api/workout-results", u, scheduledWorkoutId,
             postResultStatus(u, scheduledWorkoutId))
  /\ IF postResultStatus(u, scheduledWorkoutId) = 201
     THEN /\ workoutResultIdCounter <= MaxResults
          /\ \E now \in Dates : LET r == createWorkoutResult(
                        [scheduledWorkoutId |-> scheduledWorkoutId, userId |-> u], now)
             IN  /\ workoutResults' = r.workoutResults
                 /\ workoutResultIdCounter' = r.workoutResultIdCounter
     ELSE UNCHANGED <<workoutResults, workoutResultIdCounter>>
  /\ ret' = "none"
  /\ UNCHANGED <<userVars, recordVars, exerciseVars, groupVars, scheduledWorkouts,
                 scheduledWorkoutIdCounter>>
  /\ UNCHANGED timerVars

\* GET /api/workout-results/scheduled/:scheduledWorkoutId
getResultsStatus(u, scheduledWorkoutId) ==
  IF requireAuth(u) # 0 THEN requireAuth(u)
  ELSE IF scheduledWorkoutId \notin DOMAIN scheduledWorkouts THEN 404
  ELSE LET scheduledWorkout == scheduledWorkouts[scheduledWorkoutId]
           isCoach == /\ scheduledWorkout.groupId \in DOMAIN groups
                      /\ groups[scheduledWorkout.groupId].coachId = u
       IN  IF ~isCoach /\ ~isMember(u, scheduledWorkout.groupId)
              /\ ~(u \in DOMAIN users /\ users[u].role = "admin")
           THEN 403 ELSE 200

GetWorkoutResultsScheduled(u, scheduledWorkoutId) ==
  /\ RespondJson("GET /api/workout-results/scheduled/:scheduledWorkoutId", u,
                 scheduledWorkoutId, getResultsStatus(u, scheduledWorkoutId),
                 IF getResultsStatus(u, scheduledWorkoutId) = 200
                 THEN withUserInfo(getWorkoutResultsByScheduledWorkout(scheduledWorkoutId))
                 ELSE NoBody)
  /\ ret' = "none"
  /\ UNCHANGED <<containers, counters, hashing>>
  /\ UNCHANGED timerVars

(* ------------------------ routes that return users -------------------- *)
\* POST /api/auth/login; the user read before the await of bcrypt.compare is
\* the one answered with, and no operation changes or removes a stored user
postLoginStatus(username, password) ==
  IF username = "" \/ password = "" THEN 400
  ELSE IF getUserByUsername(username) = {} THEN 401
  ELSE IF ~bcryptCompare(password, users[Min(getUserByUsername(username))].password)
  THEN 401
  ELSE 200

PostAuthLogin(username, password) ==
  /\ IF postLoginStatus(username, password) = 200
     THEN LET user == users[Min(getUserByUsername(username))]
          IN  RespondJson("POST /api/auth/login", user.id, user.id, 200,
                          <<withoutPassword(user)>>)
     ELSE Respond("POST /api/auth/login", NoSession, 0,
                  postLoginStatus(username, password))
  /\ ret' = "none"
  /\ UNCHANGED <<containers, counters, hashing>>
  /\ UNCHANGED timerVars

\* GET /api/user
GetUser(u) ==
  /\ IF requireAuth(u) # 0 THEN Respond("GET /api/user", u, 0, requireAuth(u))
     ELSE IF u \notin DOMAIN users THEN Respond("GET /api/user", u, u, 404)
     ELSE RespondJson("GET /api/user", u, u, 200, <<withoutPassword(users[u])>>)
  /\ ret' = "none"
  /\ UNCHANGED <<containers, counters, hashing>>
  /\ UNCHANGED timerVars

\* GET /api/users: every user but the requester
GetUsers(u) ==
  /\ IF requireCoach(u) # 0 THEN Respond("GET /api/users", u, 0, requireCoach(u))
     ELSE LET others == Values(users, {k \in DOMAIN users : users[k].id # u})
          IN  RespondJson("GET /api/users", u, 0, 200,
                          [i \in 1..Len(others) |-> withoutPassword(others[i])])
  /\ ret' = "none"
  /\ UNCHANGED <<containers, counters, hashing>>
  /\ UNCHANGED timerVars

exportFormats == {"json", "csv"}

\* GET /api/export: the JSON document, or the columns written to the CSV text
GetExport(u, format) ==
  /\ IF requireAuth(u) # 0 THEN Respond("GET /api/export", u, 0, requireAuth(u))
     ELSE IF u \notin DOMAIN users THEN Respond("GET /api/export", u, u, 404)
     ELSE \E userWorkouts \in getWorkoutsByUserId(u),
             prs \in getPersonalRecordsByUserId(u) :
            IF format = "csv"
            THEN RespondJson("GET /api/export", u, u, 200,
                   << [ID |-> users[u].id, Username |-> users[u].username,
                       CreatedAt |-> users[u].createdAt,
                       Workouts |-> userWorkouts, PersonalRecords |-> prs] >>)
            ELSE RespondJson("GET /api/export", u, u, 200,
                   << [user |-> withoutPassword(users[u]),
                       workouts |-> userWorkouts, personalRecords |-> prs] >>)
  /\ ret' = "none"
  /\ UNCHANGED <<containers, counters, hashing>>
  /\ UNCHANGED timerVars

(* ------------------- the store driven directly ------------------------- *)
\* Calls of the store's own operations; the store itself validates no foreign
\* key, and whether a child row is created only under an existing parent is the
\* caller's choice of arguments.
RowIds == 1..MaxRows

Returned(operation, id, value) ==
  resp' = [route |-> operation, user |-> NoSession, id |-> id, status |-> 0,
           body |-> value]

Called(operation, id) == Returned(operation, id, NoBody)

StoreCreateGroup(coachId) ==
  /\ groupIdCounter <= MaxRows
  /\ \E now \in Dates : LET r == createGroup([coachId |-> coachId], now)
     IN  /\ groups' = r.groups
         /\ groupIdCounter' = r.groupIdCounter
         /\ Returned("createGroup", r.group.id, <<r.group>>)
  /\ ret' = "none"
  /\ UNCHANGED <<userVars, recordVars, exerciseVars, groupMembers,
                 groupMemberIdCounter, scheduleVars>>
  /\ UNCHANGED timerVars

StoreDeleteGroup(id) ==
  /\ groups' = deleteGroup(id).groups
  /\ groupMembers' = deleteGroup(id).groupMembers
  /\ scheduledWorkouts' = deleteGroup(id).scheduledWorkouts
  /\ ret' = IF deleteGroup(id).result THEN "true" ELSE "false"
  /\ Called("deleteGroup", id)
  /\ UNCHANGED <<userVars, recordVars, exerciseVars, groupIdCounter,
                 groupMemberIdCounter, scheduledWorkoutIdCounter, workoutResults,
                 workoutResultIdCounter>>
  /\ UNCHANGED timerVars

StoreAddGroupMember(groupId, userId) ==
  /\ groupMemberIdCounter <= MaxRows
  /\ \E now \in Dates : LET r == addGroupMember(
                                  [groupId |-> groupId, userId |-> userId], now)
     IN  /\ groupMembers' = r.groupMembers
         /\ groupMemberIdCounter' = r.groupMemberIdCounter
         /\ Returned("addGroupMember", r.member.id, <<r.member>>)
  /\ ret' = "none"
  /\ UNCHANGED <<userVars, recordVars, exerciseVars, groups, groupIdCounter,
                 scheduleVars>>
  /\ UNCHANGED timerVars

StoreRemoveGroupMember(groupId, userId) ==
  /\ groupMembers' = removeGroupMember(groupId, userId).groupMembers
  /\ ret' = IF removeGroupMember(groupId, userId).result THEN "true" ELSE "false"
  /\ Called("removeGroupMember", groupId)
  /\ UNCHANGED <<userVars, recordVars, exerciseVars, groups, groupIdCounter,
                 groupMemberIdCounter, scheduleVars>>
  /\ UNCHANGED timerVars

StoreCreateScheduledWorkout(insertWorkout) ==
  /\ scheduledWorkoutIdCounter <= MaxRows
  /\ \E now \in Dates : LET r == createScheduledWorkout(insertWorkout, now)
     IN  /\ scheduledWorkouts' = r.scheduledWorkouts
         /\ scheduledWorkoutIdCounter' = r.scheduledWorkoutIdCounter
         /\ Returned("createScheduledWorkout", r.workout.id, <<r.workout>>)
  /\ ret' = "none"
  /\ UNCHANGED <<userVars, recordVars, exerciseVars, groupVars, workoutResults,
                 workoutResultIdCounter>>
  /\ UNCHANGED timerVars

StoreDeleteScheduledWorkout(id) ==
  /\ scheduledWorkouts' = deleteScheduledWorkout(id).scheduledWorkouts
  /\ workoutResults' = deleteScheduledWorkout(id).workoutResults
  /\ ret' = IF deleteScheduledWorkout(id).result THEN "true" ELSE "false"
  /\ Called("deleteScheduledWorkout", id)
  /\ UNCHANGED <<userVars, recordVars, exerciseVars, groupVars,
                 scheduledWorkoutIdCounter, workoutResultIdCounter>>
  /\ UNCHANGED timerVars

StoreCreateWorkoutResult(scheduledWorkoutId, userId) ==
  /\ workoutResultIdCounter <= MaxRows
  /\ \E now \in Dates : LET r == createWorkoutResult(
                [scheduledWorkoutId |-> scheduledWorkoutId, userId |-> userId], now)
     IN  /\ workoutResults' = r.workoutResults
         /\ workoutResultIdCounter' = r.workoutResultIdCounter
         /\ Returned("createWorkoutResult", r.result.id, <<r.result>>)
  /\ ret' = "none"
  /\ UNCHANGED <<userVars, recordVars, exerciseVars, groupVars, scheduledWorkouts,
                 scheduledWorkoutIdCounter>>
  /\ UNCHANGED timerVars

\* a get of the store: nothing changes, the row or undefined is returned
StoreGet(operation, id, value) ==
  /\ Returned(operation, id, value)
  /\ ret' = "none"
  /\ UNCHANGED <<containers, counters, hashing>>
  /\ UNCHANGED timerVars

\* a list query of the store: nothing changes, the array is returned
StoreGetUpcomingWorkoutsForUser(userId, now) ==
  StoreGet("getUpcomingWorkoutsForUser", userId,
           getUpcomingWorkoutsForUser(userId, now))

StoreGetWorkoutsByUserId(userId) ==
  \E result \in getWorkoutsByUserId(userId) :
    StoreGet("getWorkoutsByUserId", userId, result)

StoreGetRecentWorkouts(userId, limit) ==
  \E result \in getRecentWorkouts(userId, limit) :
    StoreGet("getRecentWorkouts", userId, result)

StoreGetPersonalRecordsByExerciseId(userId, exerciseId) ==
  \E result \in getPersonalRecordsByExerciseId(userId, exerciseId) :
    StoreGet("getPersonalRecordsByExerciseId", userId, result)

StoreGetRecentPersonalRecords(userId, limit) ==
  \E result \in getRecentPersonalRecords(userId, limit) :
    StoreGet("getRecentPersonalRecords", userId, result)

\* the value an update resolves to: the row now stored, or undefined
updated(found, m, id) == IF found THEN <<m[id]>> ELSE Absent

boolean(b) == IF b THEN "true" ELSE "false"

StoreCreateUser(insertUser) ==
  /\ userIdCounter <= MaxRows
  /\ \E now \in Dates : LET r == createUser(insertUser, now)
     IN  /\ users' = r.users
         /\ userIdCounter' = r.userIdCounter
         /\ Returned("createUser", r.user.id, <<r.user>>)
  /\ ret' = "none"
  /\ UNCHANGED <<hashing, recordVars, exerciseVars, groupVars, scheduleVars>>
  /\ UNCHANGED timerVars

StoreGetUser(id) == StoreGet("getUser", id, getUser(id))

StoreCreateWorkout(insertWorkout) ==
  /\ workoutIdCounter <= MaxRecords
  /\ LET r == createWorkout(insertWorkout)
     IN  /\ workouts' = r.workouts
         /\ workoutIdCounter' = r.workoutIdCounter
         /\ Returned("createWorkout", r.workout.id, <<r.workout>>)
  /\ ret' = "none"
  /\ UNCHANGED <<userVars, personalRecords, prIdCounter, exerciseVars, groupVars,
                 scheduleVars>>
  /\ UNCHANGED timerVars

StoreGetWorkout(id) == StoreGet("getWorkout", id, getWorkout(id))

StoreUpdateWorkout(id, workoutUpdate) ==
  /\ LET r == updateWorkout(id, workoutUpdate)
     IN  /\ workouts' = r.workouts
         /\ Returned("updateWorkout", id, updated(r.found, r.workouts, id))
  /\ ret' = "none"
  /\ UNCHANGED <<userVars, workoutIdCounter, personalRecords, prIdCounter,
                 exerciseVars, groupVars, scheduleVars>>
  /\ UNCHANGED timerVars

StoreDeleteWorkout(id) ==
  /\ workouts' = deleteWorkout(id).workouts
  /\ ret' = boolean(deleteWorkout(id).result)
  /\ Called("deleteWorkout", id)
  /\ UNCHANGED <<userVars, workoutIdCounter, personalRecords, prIdCounter,
                 exerciseVars, groupVars, scheduleVars>>
  /\ UNCHANGED timerVars

StoreCreateExercise(insertExercise) ==
  /\ exerciseIdCounter <= Len(defaultExercises) + MaxRows
  /\ LET r == createExercise(insertExercise)
     IN  /\ exercises' = r.exercises
         /\ exerciseIdCounter' = r.exerciseIdCounter
         /\ Returned("createExercise", r.exercise.id, <<r.exercise>>)
  /\ ret' = "none"
  /\ UNCHANGED <<userVars, recordVars, groupVars, scheduleVars>>
  /\ UNCHANGED timerVars

StoreGetExercise(id) == StoreGet("getExercise", id, getExercise(id))

\* the answer keeps the query in the place of the id
StoreSearchExercises(query) == StoreGet("searchExercises", query, searchExercises(query))

StoreCreatePersonalRecord(insertPR) ==
  /\ prIdCounter <= MaxRecords
  /\ LET r == createPersonalRecord(insertPR)
     IN  /\ personalRecords' = r.personalRecords
         /\ prIdCounter' = r.prIdCounter
         /\ Returned("createPersonalRecord", r.pr.id, <<r.pr>>)
  /\ ret' = "none"
  /\ UNCHANGED <<userVars, workouts, workoutIdCounter, exerciseVars, groupVars,
                 scheduleVars>>
  /\ UNCHANGED timerVars

StoreGetPersonalRecord(id) == StoreGet("getPersonalRecord", id, getPersonalRecord(id))

StoreUpdatePersonalRecord(id, prUpdate) ==
  /\ LET r == updatePersonalRecord(id, prUpdate)
     IN  /\ personalRecords' = r.personalRecords
         /\ Returned("updatePersonalRecord", id, updated(r.found, r.personalRecords, id))
  /\ ret' = "none"
  /\ UNCHANGED <<userVars, workouts, workoutIdCounter, prIdCounter, exerciseVars,
                 groupVars, scheduleVars>>
  /\ UNCHANGED timerVars

StoreDeletePersonalRecord(id) ==
  /\ personalRecords' = deletePersonalRecord(id).personalRecords
  /\ ret' = boolean(deletePersonalRecord(id).result)
  /\ Called("deletePersonalRecord", id)
  /\ UNCHANGED <<userVars, workouts, workoutIdCounter, prIdCounter, exerciseVars,
                 groupVars, scheduleVars>>
  /\ UNCHANGED timerVars

StoreGetGroup(id) == StoreGet("getGroup", id, getGroup(id))

StoreUpdateGroup(id, groupUpdate) ==
  /\ LET r == updateGroup(id, groupUpdate)
     IN  /\ groups' = r.groups
         /\ Returned("updateGroup", id, updated(r.found, r.groups, id))
  /\ ret' = "none"
  /\ UNCHANGED <<userVars, recordVars, exerciseVars, groupIdCounter, groupMembers,
                 groupMemberIdCounter, scheduleVars>>
  /\ UNCHANGED timerVars

StoreGetScheduledWorkout(id) ==
  StoreGet("getScheduledWorkout", id, getScheduledWorkout(id))

StoreUpdateScheduledWorkout(id, workoutUpdate) ==
  /\ LET r == updateScheduledWorkout(id, workoutUpdate)
     IN  /\ scheduledWorkouts' = r.scheduledWorkouts
         /\ Returned("updateScheduledWorkout", id,
                     updated(r.found, r.scheduledWorkouts, id))
  /\ ret' = "none"
  /\ UNCHANGED <<userVars, recordVars, exerciseVars, groupVars,
                 scheduledWorkoutIdCounter, workoutResults, workoutResultIdCounter>>
  /\ UNCHANGED timerVars

StoreGetWorkoutResult(id) == StoreGet("getWorkoutResult", id, getWorkoutResult(id))

StoreUpdateWorkoutResult(id, resultUpdate) ==
  /\ LET r == updateWorkoutResult(id, resultUpdate)
     IN  /\ workoutResults' = r.workoutResults
         /\ Returned("updateWorkoutResult", id, updated(r.found, r.workoutResults, id))
  /\ ret' = "none"
  /\ UNCHANGED <<userVars, recordVars, exerciseVars, groupVars, scheduledWorkouts,
                 scheduledWorkoutIdCounter, workoutResultIdCounter>>
  /\ UNCHANGED timerVars

(* --------------------------- specifications ---------------------------- *)
UserData == [username : Usernames, password : Passwords, role : userRoles]

Register ==
  \/ \E userData \in UserData : PostAuthRegisterCheck(userData)
  \/ \E userData \in UserData : PostAuthRegisterCreate(userData)

NoSessionRequests == \E route \in guardedRoutes : Unauthenticated(route)

RecordRoutes ==
  \/ \E u \in Requesters, d \in Dates : PostWorkouts(u, d)
  \/ \E u \in Requesters, id \in WorkoutIds, b \in WorkoutBodies : PutWorkoutsId(u, id, b)
  \/ \E u \in Requesters, id \in WorkoutIds : DeleteWorkoutsId(u, id)
  \/ \E u \in Requesters, e \in {1, exerciseIdCounter}, d \in Dates : PostPrs(u, e, d)
  \/ \E u \in Requesters, id \in PRIds, b \in PRBodies : PutPrsId(u, id, b)
  \/ \E u \in Requesters, id \in PRIds : DeletePrsId(u, id)

GroupRoutes ==
  \/ \E u \in Requesters, d \in Dates : PostWorkouts(u, d)
  \/ \E u \in Requesters : PostGroups(u)
  \/ \E u \in Requesters, id \in GroupIds : GetGroupsId(u, id)
  \/ \E u \in Requesters, id \in GroupIds, b \in GroupBodies : PutGroupsId(u, id, b)
  \/ \E u \in Requesters, id \in GroupIds : DeleteGroupsId(u, id)
  \/ \E u \in Requesters, g \in GroupIds, x \in UserIds \cup {0} : PostGroupsMembers(u, g, x)
  \/ \E u \in Requesters, g \in GroupIds, x \in UserIds : DeleteGroupsMembers(u, g, x)
  \/ \E u \in Requesters, g \in GroupIds : GetGroupsMembers(u, g)
  \/ \E u \in Requesters, w \in WorkoutIds \cup {0}, g \in GroupIds \cup {0} :
        PostScheduledWorkouts(u, w, g)
  \/ \E u \in Requesters, g \in GroupIds : GetScheduledWorkoutsGroup(u, g)
  \/ \E u \in Requesters, id \in ScheduledIds : DeleteScheduledWorkoutsId(u, id)
  \/ \E u \in Requesters, id \in ScheduledIds \cup {0} : PostWorkoutResults(u, id)
  \/ \E u \in Requesters, id \in ScheduledIds : GetWorkoutResultsScheduled(u, id)

StoreCalls ==
  \/ \E c \in {1} : StoreCreateGroup(c)
  \/ \E id \in RowIds : StoreDeleteGroup(id)
  \/ \E g \in DOMAIN groups, x \in UserIds : StoreAddGroupMember(g, x)
  \/ \E g \in RowIds, x \in UserIds : StoreRemoveGroupMember(g, x)
  \/ \E g \in DOMAIN groups, d \in Dates :
       StoreCreateScheduledWorkout(
         [workoutId |-> 1, groupId |-> g, scheduledDate |-> d, createdBy |-> 1])
  \/ \E id \in RowIds : StoreDeleteScheduledWorkout(id)
  \/ \E s \in DOMAIN scheduledWorkouts, x \in {1} : StoreCreateWorkoutResult(s, x)

\* every route
Next == Register \/ NoSessionRequests \/ RecordRoutes \/ GroupRoutes
Spec == Init /\ [][Next]_vars

\* registration alone
NextAuth == Register
SpecAuth == Init /\ [][NextAuth]_vars

\* the routes of workouts and personal records
NextRecords == Register \/ RecordRoutes
SpecRecords == Init /\ [][NextRecords]_vars

\* the routes of groups, members, scheduled workouts and results
NextGroups == Register \/ GroupRoutes
SpecGroups == Init /\ [][NextGroups]_vars

\* the routes that answer with user data, and those that create what they list
UserDataRoutes ==
  \/ \E n \in Usernames \cup {""}, p \in Passwords \cup {"", "no"} : PostAuthLogin(n, p)
  \/ \E u \in Requesters : GetUser(u)
  \/ \E u \in Requesters : GetUsers(u)
  \/ \E u \in Requesters, f \in exportFormats : GetExport(u, f)
  \/ \E u \in Requesters, d \in Dates : PostWorkouts(u, d)
  \/ \E u \in Requesters : PostGroups(u)
  \/ \E u \in Requesters, g \in GroupIds, x \in UserIds : PostGroupsMembers(u, g, x)
  \/ \E u \in Requesters, g \in GroupIds : GetGroupsMembers(u, g)
  \/ \E u \in Requesters, w \in WorkoutIds, g \in GroupIds : PostScheduledWorkouts(u, w, g)
  \/ \E u \in Requesters, id \in ScheduledIds : PostWorkoutResults(u, id)
  \/ \E u \in Requesters, id \in ScheduledIds : GetWorkoutResultsScheduled(u, id)

NextUserData == Register \/ UserDataRoutes
SpecUserData == Init /\ [][NextUserData]_vars

\* the store's group, member, scheduled workout and result operations, called
\* so that a child row is created only while its parent row exists
NextStore == StoreCalls
SpecStore == Init /\ [][NextStore]_vars

\* each container as the constructor left it
untouched ==
  [users |-> users = EmptyMap /\ userIdCounter = 1,
   workouts |-> workouts = EmptyMap /\ workoutIdCounter = 1,
   exercises |-> exerciseIdCounter = initializeExercises.exerciseIdCounter,
   personalRecords |-> personalRecords = EmptyMap /\ prIdCounter = 1,
   groups |-> groups = EmptyMap /\ groupIdCounter = 1,
   groupMembers |-> groupMembers = EmptyMap /\ groupMemberIdCounter = 1,
   scheduledWorkouts |-> scheduledWorkouts = EmptyMap /\ scheduledWorkoutIdCounter = 1,
   workoutResults |-> workoutResults = EmptyMap /\ workoutResultIdCounter = 1]

\* the caller has worked on this container alone
Only(container) == \A c \in DOMAIN untouched \ {container} : untouched[c]

\* Partial<T> arguments of an update: nothing, a field the row lacks, a field
\* the row has, or the id
RowPatches(field, value) ==
  {EmptyBody, [notes |-> "rx"], field :> value} \cup {[id |-> i] : i \in RowIds}

\* the create, get, update and delete operations of the store, one container at
\* a time
EntityCalls ==
  \/ /\ Only("users")
     /\ \E n \in Usernames :
          StoreCreateUser([username |-> n, password |-> bcryptHash("pw"),
                           role |-> "athlete"])
  \/ Only("users") /\ \E id \in RowIds : StoreGetUser(id)
  \/ Only("workouts") /\ \E d \in Dates : StoreCreateWorkout([userId |-> 1, date |-> d])
  \/ Only("workouts") /\ \E id \in RowIds : StoreGetWorkout(id)
  \/ /\ Only("workouts")
     /\ \E id \in RowIds, patch \in RowPatches("date", MaxDate + 1) :
          StoreUpdateWorkout(id, patch)
  \/ Only("workouts") /\ \E id \in RowIds : StoreDeleteWorkout(id)
  \/ /\ Only("exercises")
     /\ StoreCreateExercise([name |-> "Snatch", category |-> "Weightlifting",
                              description |-> "A barbell lift."])
  \/ /\ Only("exercises")
     /\ \E id \in 1..(Len(defaultExercises) + MaxRows) : StoreGetExercise(id)
  \/ /\ Only("personalRecords")
     /\ \E d \in Dates :
          StoreCreatePersonalRecord([userId |-> 1, exerciseId |-> 1, date |-> d])
  \/ Only("personalRecords") /\ \E id \in RowIds : StoreGetPersonalRecord(id)
  \/ /\ Only("personalRecords")
     /\ \E id \in RowIds, patch \in RowPatches("date", MaxDate + 1) :
          StoreUpdatePersonalRecord(id, patch)
  \/ Only("personalRecords") /\ \E id \in RowIds : StoreDeletePersonalRecord(id)
  \/ Only("groups") /\ StoreCreateGroup(1)
  \/ Only("groups") /\ \E id \in RowIds : StoreGetGroup(id)
  \/ /\ Only("groups")
     /\ \E id \in RowIds, patch \in RowPatches("coachId", 2) : StoreUpdateGroup(id, patch)
  \/ Only("groups") /\ \E id \in RowIds : StoreDeleteGroup(id)
  \/ Only("groupMembers") /\ \E x \in UserIds : StoreAddGroupMember(1, x)
  \/ Only("groupMembers") /\ \E x \in UserIds : StoreRemoveGroupMember(1, x)
  \/ /\ Only("scheduledWorkouts")
     /\ \E d \in Dates :
          StoreCreateScheduledWorkout(
            [workoutId |-> 1, groupId |-> 1, scheduledDate |-> d, createdBy |-> 1])
  \/ Only("scheduledWorkouts") /\ \E id \in RowIds : StoreGetScheduledWorkout(id)
  \/ /\ Only("scheduledWorkouts")
     /\ \E id \in RowIds, patch \in RowPatches("groupId", 2) :
          StoreUpdateScheduledWorkout(id, patch)
  \/ Only("scheduledWorkouts") /\ \E id \in RowIds : StoreDeleteScheduledWorkout(id)
  \/ Only("workoutResults") /\ StoreCreateWorkoutResult(1, 1)
  \/ Only("workoutResults") /\ \E id \in RowIds : StoreGetWorkoutResult(id)
  \/ /\ Only("workoutResults")
     /\ \E id \in RowIds, patch \in RowPatches("userId", 2) :
          StoreUpdateWorkoutResult(id, patch)

NextEntities == EntityCalls
SpecEntities == Init /\ [][NextEntities]_vars

\* groups, their member rows and their schedule, and the upcoming workouts of
\* a user at a time of the clock
UpcomingCalls ==
  \/ StoreCreateGroup(1)
  \/ \E id \in RowIds, i \in RowIds : StoreUpdateGroup(id, [id |-> i])
  \/ \E g \in RowIds, x \in UserIds : StoreAddGroupMember(g, x)
  \/ \E g \in RowIds, x \in UserIds : StoreRemoveGroupMember(g, x)
  \/ \E g \in RowIds, d \in Times :
       StoreCreateScheduledWorkout(
         [workoutId |-> 1, groupId |-> g, scheduledDate |-> d, createdBy |-> 1])
  \/ \E u \in UserIds, now \in Times : StoreGetUpcomingWorkoutsForUser(u, now)

NextUpcoming == UpcomingCalls
SpecUpcoming == Init /\ [][NextUpcoming]_vars

ExerciseIds == 1..2
Limits == 0..(MaxRecords + 1)

\* personal records of users and exercises, a record losing its date as it
\* does when PUT /api/prs/:id carries none, and the two list queries
RecordListCalls ==
  \/ \E u \in UserIds, e \in ExerciseIds, d \in Times :
       StoreCreatePersonalRecord([userId |-> u, exerciseId |-> e, date |-> d])
  \/ \E id \in 1..MaxRecords : StoreUpdatePersonalRecord(id, [date |-> undefined])
  \/ \E u \in UserIds, e \in ExerciseIds : StoreGetPersonalRecordsByExerciseId(u, e)
  \/ \E u \in UserIds, n \in Limits : StoreGetRecentPersonalRecords(u, n)

NextRecordLists == RecordListCalls
SpecRecordLists == Init /\ [][NextRecordLists]_vars

\* workouts of users, a workout losing its date as it does when
\* PUT /api/workouts/:id carries none, and the two list queries; the limit is
\* any integer GET /api/workouts/recent parses but 0
WorkoutListCalls ==
  \/ \E u \in UserIds, d \in Times : StoreCreateWorkout([userId |-> u, date |-> d])
  \/ \E id \in 1..MaxRecords : StoreUpdateWorkout(id, [date |-> undefined])
  \/ \E u \in UserIds : StoreGetWorkoutsByUserId(u)
  \/ \E u \in UserIds, n \in Limits \cup {0 - 1} : StoreGetRecentWorkouts(u, n)

SpecWorkoutLists == Init /\ [][WorkoutListCalls]_vars

ExerciseInserts ==
  {[name |-> "Snatch", category |-> "Weightlifting",
    description |-> "A FAST Squat under the bar."],
   [name |-> "Air SQUAT", category |-> "Gymnastics", description |-> "Sit, stand."],
   [name |-> "Plank", category |-> "Gymnastics", description |-> "Hold."]}

Queries ==
  {"squat", "SQUAT", "Squat", "qua", "", "row", "squat.", "back  squat", "Push-Up",
   "t s", "squats"}

\* exercises added to the seeded catalogue, and searches of it
ExerciseCalls ==
  \/ \E e \in ExerciseInserts : StoreCreateExercise(e)
  \/ \E q \in Queries : StoreSearchExercises(q)

SpecExercises == Init /\ [][ExerciseCalls]_vars

\* the timer page: its buttons, its controls and the ticks of its interval
TimerCalls ==
  \/ \E type \in timerTypes : SetActiveTimer(type)
  \/ \E newSettings \in settingsChanges(settings) : OnSettingsChange(newSettings)
  \/ handleStartStop
  \/ handleReset
  \/ Tick

SpecTimer == Init /\ [][TimerCalls]_vars

(* ------------------------------- claims -------------------------------- *)
\* u has a GroupMember row in group g
hasMemberRow(u, g) ==
  \E k \in DOMAIN groupMembers :
    groupMembers[k].groupId = g /\ groupMembers[k].userId = u

isAdminUser(u) == u \in DOMAIN users /\ users[u].role = "admin"
isGroupCoach(u, g) == g \in DOMAIN groups /\ groups[g].coachId = u

\* C1: no orphaned child row: every GroupMember and every ScheduledWorkout
\* references a Group that is present, and every WorkoutResult references a
\* ScheduledWorkout that is present, after any sequence of store operations that
\* create a child only while its parent exists.
C1_NoOrphanedChildRows ==
  /\ \A k \in DOMAIN groupMembers : groupMembers[k].groupId \in DOMAIN groups
  /\ \A k \in DOMAIN scheduledWorkouts : scheduledWorkouts[k].groupId \in DOMAIN groups
  /\ \A k \in DOMAIN workoutResults :
       workoutResults[k].scheduledWorkoutId \in DOMAIN scheduledWorkouts

C4_ResultSubmissionRule ==
  (resp.route = "POST /api/workout-results" /\ resp.id \in DOMAIN scheduledWorkouts) =>
    LET g == scheduledWorkouts[resp.id].groupId
        allowed == hasMemberRow(resp.user, g) \/ isGroupCoach(resp.user, g)
                     \/ isAdminUser(resp.user)
    IN  resp.status = IF allowed THEN 201 ELSE 403

\* C5: viewing an existing group or its members is allowed (200) exactly when
\* the requester is the group's coach, an admin, or has a member row in that
\* group; anyone else gets 403.
C5_ViewGroupRule ==
  (resp.route \in {"GET /api/groups/:id", "GET /api/groups/:groupId/members"}
     /\ resp.id \in DOMAIN groups) =>
    LET allowed == isGroupCoach(resp.user, resp.id) \/ isAdminUser(resp.user)
                     \/ hasMemberRow(resp.user, resp.id)
    IN  resp.status = IF allowed THEN 200 ELSE 403

\* C6: PUT and DELETE of a workout or personal record by anyone but the user in
\* its userId get 403 and change nothing; an existing workout or personal record
\* changes or disappears only through such a request by its owner.
C6_OwnerOnlyMutation ==
  [][ /\ (resp'.route \in {"PUT /api/workouts/:id", "DELETE /api/workouts/:id"}
            /\ resp'.id \in DOMAIN workouts /\ workouts[resp'.id].userId # resp'.user)
          => (resp'.status = 403 /\ UNCHANGED <<containers, counters>>)
      /\ (resp'.route \in {"PUT /api/prs/:id", "DELETE /api/prs/:id"}
            /\ resp'.id \in DOMAIN personalRecords
            /\ personalRecords[resp'.id].userId # resp'.user)
          => (resp'.status = 403 /\ UNCHANGED <<containers, counters>>)
      /\ \A k \in DOMAIN workouts :
           (k \notin DOMAIN workouts' \/ workouts'[k] # workouts[k]) =>
             /\ resp'.route \in {"PUT /api/workouts/:id", "DELETE /api/workouts/:id"}
             /\ resp'.id = k /\ resp'.user = workouts[k].userId
      /\ \A k \in DOMAIN personalRecords :
           (k \notin DOMAIN personalRecords' \/ personalRecords'[k] # personalRecords[k]) =>
             /\ resp'.route \in {"PUT /api/prs/:id", "DELETE /api/prs/:id"}
             /\ resp'.id = k /\ resp'.user = personalRecords[k].userId ]_vars

\* a user other than the owner was refused on a workout and on a personal record
C6_Witness ==
  /\ resp.route \in {"PUT /api/prs/:id", "DELETE /api/prs/:id"}
  /\ resp.status = 403
  /\ resp.id \in DOMAIN personalRecords
  /\ personalRecords[resp.id].userId # resp.user
  /\ \E k \in DOMAIN workouts : workouts[k].userId # resp.user

\* C7: update group, delete group, add member and remove member change the
\* store only for the group's coach or an admin; any other requester is rejected
\* and nothing changes, and no existing group or its member rows change otherwise.
groupMutatingRoutes ==
  {"PUT /api/groups/:id", "DELETE /api/groups/:id",
   "POST /api/groups/:groupId/members", "DELETE /api/groups/:groupId/members/:userId"}

memberRowsOf(members, g) == {members[k] : k \in {m \in DOMAIN members : members[m].groupId = g}}

C7_GroupMutationRule ==
  [][ /\ (resp'.route \in groupMutatingRoutes
            /\ ~(isGroupCoach(resp'.user, resp'.id) \/ isAdminUser(resp'.user)))
          => /\ resp'.status \notin {200, 201}
             /\ resp'.id \in DOMAIN groups => resp'.status \in {400, 403}
             /\ UNCHANGED <<containers, counters>>
      /\ \A g \in DOMAIN groups :
           (\/ g \notin DOMAIN groups'
            \/ groups'[g] # groups[g]
            \/ memberRowsOf(groupMembers', g) # memberRowsOf(groupMembers, g))
           => /\ resp'.route \in groupMutatingRoutes /\ resp'.id = g
              /\ (isGroupCoach(resp'.user, g) \/ isAdminUser(resp'.user)) ]_vars

\* a coach who does not own the group was refused
C7_Witness ==
  /\ resp.route \in groupMutatingRoutes
  /\ resp.status = 403
  /\ resp.id \in DOMAIN groups
  /\ users[resp.user].role = "coach"
  /\ groups[resp.id].coachId # resp.user

\* C8: a scheduled workout is created for a group only by that group's coach or
\* an admin, and removed only by the group's coach, an admin or its creator; any
\* other requester is rejected and the scheduled workouts and results are unchanged.
C8_ScheduledWorkoutRule ==
  [][ /\ \A k \in DOMAIN scheduledWorkouts' \ DOMAIN scheduledWorkouts :
           /\ resp'.route = "POST /api/scheduled-workouts"
           /\ (\/ isGroupCoach(resp'.user, scheduledWorkouts'[k].groupId)
               \/ isAdminUser(resp'.user))
      /\ \A k \in DOMAIN scheduledWorkouts :
           (k \notin DOMAIN scheduledWorkouts' \/ scheduledWorkouts'[k] # scheduledWorkouts[k])
           => (\/ isGroupCoach(resp'.user, scheduledWorkouts[k].groupId)
               \/ isAdminUser(resp'.user)
               \/ scheduledWorkouts[k].createdBy = resp'.user)
      /\ (resp'.route = "POST /api/scheduled-workouts" /\ resp'.id \in DOMAIN groups
            /\ ~(isGroupCoach(resp'.user, resp'.id) \/ isAdminUser(resp'.user)))
          => (resp'.status \in {400, 403, 404} /\ UNCHANGED <<containers, counters>>)
      /\ (resp'.route = "DELETE /api/scheduled-workouts/:id"
            /\ resp'.id \in DOMAIN scheduledWorkouts
            /\ ~(\/ isGroupCoach(resp'.user, scheduledWorkouts[resp'.id].groupId)
                 \/ isAdminUser(resp'.user)
                 \/ scheduledWorkouts[resp'.id].createdBy = resp'.user))
          => (resp'.status = 403 /\ UNCHANGED <<containers, counters>>) ]_vars

\* a coach who neither created the scheduled workout nor coaches its group was
\* refused its deletion
C8_Witness ==
  /\ resp.route = "DELETE /api/scheduled-workouts/:id"
  /\ resp.status = 403
  /\ resp.id \in DOMAIN scheduledWorkouts
  /\ users[resp.user].role = "coach"

\* C9: the guarded routes that target a Group or a ScheduledWorkout by id
groupTargetRoutes ==
  {"GET /api/groups/:id", "PUT /api/groups/:id", "DELETE /api/groups/:id",
   "POST /api/groups/:groupId/members", "DELETE /api/groups/:groupId/members/:userId",
   "GET /api/groups/:groupId/members", "POST /api/scheduled-workouts",
   "GET /api/scheduled-workouts/group/:groupId"}
scheduledTargetRoutes ==
  {"DELETE /api/scheduled-workouts/:id", "POST /api/workout-results",
   "GET /api/workout-results/scheduled/:scheduledWorkoutId"}
\* the routes behind requireCoach
coachRoutes ==
  {"PUT /api/groups/:id", "DELETE /api/groups/:id", "POST /api/groups/:groupId/members",
   "DELETE /api/groups/:groupId/members/:userId", "POST /api/scheduled-workouts",
   "DELETE /api/scheduled-workouts/:id"}
\* the last request was authenticated and its target is not in the store
targetMissing ==
  /\ resp.user # NoSession
  /\ \/ resp.route \in groupTargetRoutes /\ resp.id \notin DOMAIN groups
     \/ resp.route \in scheduledTargetRoutes /\ resp.id \notin DOMAIN scheduledWorkouts

C10_UsernamesUnique ==
  \A a, b \in DOMAIN users : a # b => users[a].username # users[b].username

\* C11: the (groupId, userId) pair is unique among GroupMember rows: no two
\* member rows have the same groupId and the same userId.
C11_MemberPairUnique ==
  \A a, b \in DOMAIN groupMembers :
    a # b => \/ groupMembers[a].groupId # groupMembers[b].groupId
             \/ groupMembers[a].userId # groupMembers[b].userId

exposesPassword(object) ==
  \/ "password" \in DOMAIN object
  \/ "user" \in DOMAIN object /\ "password" \in DOMAIN object.user

\* C13: no HTTP response carries a User's password field: every object a route
\* answers with, and every user object embedded in one, has no password.
C13_NoPasswordInResponse ==
  resp.status # 0 => \A i \in 1..Len(resp.body) : ~exposesPassword(resp.body[i])

\* the members route listed a member together with the info of a stored user,
\* whose stored row does hold a password
C13_Witness ==
  /\ resp.route = "GET /api/groups/:groupId/members" /\ resp.status = 200
  /\ Len(resp.body) >= 1
  /\ resp.body[1].user.username = users[resp.body[1].userId].username
  /\ "password" \in DOMAIN users[resp.body[1].userId]

\* the containers and their id counters, by entity type
stores ==
  [users |-> users, workouts |-> workouts, exercises |-> exercises,
   personalRecords |-> personalRecords, groups |-> groups,
   groupMembers |-> groupMembers, scheduledWorkouts |-> scheduledWorkouts,
   workoutResults |-> workoutResults]
idCounters ==
  [users |-> userIdCounter, workouts |-> workoutIdCounter,
   exercises |-> exerciseIdCounter, personalRecords |-> prIdCounter,
   groups |-> groupIdCounter, groupMembers |-> groupMemberIdCounter,
   scheduledWorkouts |-> scheduledWorkoutIdCounter,
   workoutResults |-> workoutResultIdCounter]
\* the store's operations, by entity type
createOperation ==
  [users |-> "createUser", workouts |-> "createWorkout", exercises |-> "createExercise",
   personalRecords |-> "createPersonalRecord", groups |-> "createGroup",
   groupMembers |-> "addGroupMember", scheduledWorkouts |-> "createScheduledWorkout",
   workoutResults |-> "createWorkoutResult"]
getOperation ==
  [users |-> "getUser", workouts |-> "getWorkout", exercises |-> "getExercise",
   personalRecords |-> "getPersonalRecord", groups |-> "getGroup",
   scheduledWorkouts |-> "getScheduledWorkout", workoutResults |-> "getWorkoutResult"]
updateOperation ==
  [workouts |-> "updateWorkout", personalRecords |-> "updatePersonalRecord",
   groups |-> "updateGroup", scheduledWorkouts |-> "updateScheduledWorkout",
   workoutResults |-> "updateWorkoutResult"]
deleteOperation ==
  [workouts |-> "deleteWorkout", personalRecords |-> "deletePersonalRecord",
   groups |-> "deleteGroup", scheduledWorkouts |-> "deleteScheduledWorkout"]

\* the create of a type returns the value of that type's counter, which only a
\* create advances, by one; every key is below the counter, so none is reused
idsFromCounters(t) ==
  /\ IF resp'.route = createOperation[t]
     THEN /\ resp'.body[1].id = idCounters[t]
          /\ idCounters'[t] = idCounters[t] + 1
          /\ DOMAIN stores'[t] = DOMAIN stores[t] \cup {idCounters[t]}
     ELSE idCounters'[t] = idCounters[t]
  /\ \A k \in DOMAIN stores'[t] : k < idCounters'[t]

\* C14: for each entity type the k-th create returns id k whatever was deleted
\* in between (the first Exercise created after seeding gets 13), an id is never
\* reused, and two live entities of a type never share an id.
C14_IdsFromCounters ==
  [][ \A t \in DOMAIN stores :
        /\ idsFromCounters(t)
        /\ \A a, b \in DOMAIN stores'[t] :
             a # b => stores'[t][a].id # stores'[t][b].id ]_vars

\* C15: for every entity type, a get of the id that the create just before it
\* returned yields a row equal to the one the create returned, id and server-set
\* timestamp included.
C15_CreateThenGet ==
  [][ \A t \in DOMAIN getOperation :
        (/\ resp.route = createOperation[t]
         /\ resp'.route = getOperation[t]
         /\ resp'.id = resp.body[1].id)
        => resp'.body = resp.body ]_vars

\* getGroup returned the group created last, with its id and its createdAt
C15_Witness ==
  /\ resp.route = "getGroup" /\ resp.id + 1 = groupIdCounter
  /\ resp.body = <<groups[resp.id]>>
  /\ resp.body[1].id = resp.id /\ resp.body[1].createdAt \in Dates

\* new is old with the fields of the patch overwritten or added
mergedRow(old, new, patch) ==
  /\ DOMAIN new = DOMAIN old \cup DOMAIN patch
  /\ \A f \in DOMAIN patch : new[f] = patch[f]
  /\ \A f \in DOMAIN old \ DOMAIN patch : new[f] = old[f]

\* an update of row id by patch: the row is merged, returned as stored, and no
\* other row of the container changes
shallowMerge(m, id, patch) ==
  id \in DOMAIN m =>
    /\ DOMAIN m' = DOMAIN m
    /\ mergedRow(m[id], m'[id], patch)
    /\ patch = EmptyBody => m'[id] = m[id]
    /\ resp'.body = <<m'[id]>>
    /\ \A k \in DOMAIN m \ {id} : m'[k] = m[k]

\* C16: update(id, patch) on an existing entity is a shallow merge: supplied
\* fields take the patch's value, absent fields keep theirs, the stored entity
\* equals the returned one, the empty patch changes nothing, and no other entity
\* changes.
C16_UpdateIsShallowMerge ==
  [][ \A id \in RowIds :
        /\ \A patch \in RowPatches("date", MaxDate + 1) :
             /\ StoreUpdateWorkout(id, patch) => shallowMerge(workouts, id, patch)
             /\ StoreUpdatePersonalRecord(id, patch)
                  => shallowMerge(personalRecords, id, patch)
        /\ \A patch \in RowPatches("coachId", 2) :
             StoreUpdateGroup(id, patch) => shallowMerge(groups, id, patch)
        /\ \A patch \in RowPatches("groupId", 2) :
             StoreUpdateScheduledWorkout(id, patch)
               => shallowMerge(scheduledWorkouts, id, patch)
        /\ \A patch \in RowPatches("userId", 2) :
             StoreUpdateWorkoutResult(id, patch)
               => shallowMerge(workoutResults, id, patch) ]_vars

\* updateWorkout returned the stored row, which gained the notes of a patch,
\* kept its userId, and carries a date that only a patch could have set
C16_Witness ==
  /\ resp.route = "updateWorkout" /\ resp.id \in DOMAIN workouts
  /\ resp.body = <<workouts[resp.id]>>
  /\ "notes" \in DOMAIN workouts[resp.id]
  /\ workouts[resp.id].date = MaxDate + 1 /\ workouts[resp.id].userId = 1

\* C17: an update of an id that is not present returns undefined and inserts
\* nothing: every container and counter is as before.
C17_UpdateOfMissingId ==
  [][ \A t \in DOMAIN updateOperation :
        (resp'.route = updateOperation[t] /\ resp'.id \notin DOMAIN stores[t])
        => (resp'.body = Absent /\ UNCHANGED <<containers, counters>>) ]_vars

\* updatePersonalRecord of an id the container lacks, beside a row it holds
C17_Witness ==
  /\ resp.route = "updatePersonalRecord" /\ resp.body = Absent
  /\ resp.id \notin DOMAIN personalRecords /\ personalRecords # EmptyMap

\* C18: delete returns whether the entity existed, and leaves the id absent: a
\* get after it returns undefined and a second delete returns false.
C18_DeleteReturnsExisted ==
  [][ /\ \A t \in DOMAIN deleteOperation :
           /\ resp'.route = deleteOperation[t] =>
                /\ ret' = boolean(resp'.id \in DOMAIN stores[t])
                /\ resp'.id \notin DOMAIN stores'[t]
           /\ (resp.route = deleteOperation[t] /\ resp'.id = resp.id) =>
                /\ resp'.route = deleteOperation[t] => ret' = "false"
                /\ resp'.route = getOperation[t] => resp'.body = Absent
      /\ \A t \in DOMAIN getOperation :
           (resp'.route = getOperation[t] /\ resp'.id \notin DOMAIN stores[t])
           => resp'.body = Absent ]_vars

\* deleteWorkout returned false for an id that had been handed out, so for a
\* workout deleted before
C18_Witness ==
  /\ resp.route = "deleteWorkout" /\ ret = "false"
  /\ resp.id < workoutIdCounter /\ resp.id \notin DOMAIN workouts


\* the keys of the scheduled workouts of the groups in which u has a member
\* row, scheduled at now or later
upcomingOf(u, now) ==
  {k \in DOMAIN scheduledWorkouts :
     /\ scheduledWorkouts[k].groupId \in DOMAIN groups
     /\ hasMemberRow(u, scheduledWorkouts[k].groupId)
     /\ scheduledWorkouts[k].scheduledDate >= now}

ascendingBy(rows, field) ==
  \A i, j \in 1..Len(rows) : i < j => rows[i][field] <= rows[j][field]

\* C19: getUpcomingWorkoutsForUser(u) returns exactly the scheduled workouts of
\* the groups in which u has a member row whose scheduledDate is the current
\* time or later, in ascending order of scheduledDate; a group u only coaches
\* or was removed from contributes none.
C19_UpcomingWorkouts ==
  [][\A u \in UserIds, now \in Times :
       StoreGetUpcomingWorkoutsForUser(u, now) =>
         /\ Len(resp'.body) = Cardinality(upcomingOf(u, now))
         /\ {resp'.body[i] : i \in 1..Len(resp'.body)} =
              {scheduledWorkouts[k] : k \in upcomingOf(u, now)}
         /\ ascendingBy(resp'.body, "scheduledDate")]_vars

\* the keys of u's personal records
recordsOf(u) == {k \in DOMAIN personalRecords : personalRecords[k].userId = u}

\* rows holds each of the records under keys once and nothing else
holdsExactly(rows, keys) ==
  /\ Len(rows) = Cardinality(keys)
  /\ {rows[i] : i \in 1..Len(rows)} = {personalRecords[k] : k \in keys}

\* a record with a date never comes before a record with an earlier date
oldestFirst(rows) ==
  \A i, j \in 1..Len(rows) :
    i < j /\ rows[i].date # undefined /\ rows[j].date # undefined
    => rows[i].date <= rows[j].date

newestFirst(rows) ==
  \A i, j \in 1..Len(rows) :
    i < j /\ rows[i].date # undefined /\ rows[j].date # undefined
    => rows[i].date >= rows[j].date

\* no record with a date is left out in favour of a record with an earlier date
newestKept(kept, left) ==
  \A k \in kept, l \in left :
    personalRecords[k].date # undefined /\ personalRecords[l].date # undefined
    => personalRecords[k].date >= personalRecords[l].date

\* C20: getPersonalRecordsByExerciseId(u, e) returns exactly u's records for
\* exercise e, oldest first; getRecentPersonalRecords(u, n) returns
\* min(n, number of u's records) of u's records, newest first, for n >= 0.
C20_RecordLists ==
  [][/\ \A u \in UserIds, e \in ExerciseIds :
          StoreGetPersonalRecordsByExerciseId(u, e) =>
            /\ holdsExactly(resp'.body,
                            {k \in recordsOf(u) : personalRecords[k].exerciseId = e})
            /\ oldestFirst(resp'.body)
     /\ \A u \in UserIds, n \in Limits :
          StoreGetRecentPersonalRecords(u, n) =>
            /\ Len(resp'.body) = Min({n, Cardinality(recordsOf(u))})
            /\ \E keys \in SUBSET recordsOf(u) :
                 /\ holdsExactly(resp'.body, keys)
                 /\ newestKept(keys, recordsOf(u) \ keys)
            /\ newestFirst(resp'.body)]_vars

\* the keys of u's workouts
workoutsOf(u) == {k \in DOMAIN workouts : workouts[k].userId = u}

\* rows holds each of u's workouts once and nothing else, a workout never
\* before a later one, and workouts of one date in the order of their creation
listsNewestFirst(rows, u) ==
  /\ Len(rows) = Cardinality(workoutsOf(u))
  /\ {rows[i] : i \in 1..Len(rows)} = {workouts[k] : k \in workoutsOf(u)}
  /\ \A i, j \in 1..Len(rows) :
       i < j /\ rows[i].date # undefined /\ rows[j].date # undefined
       => \/ rows[i].date > rows[j].date
          \/ rows[i].date = rows[j].date /\ rows[i].id < rows[j].id

\* the first n elements of rows
firstElements(rows, n) ==
  SubSeq(rows, 1, IF n < 0 THEN 0 ELSE IF n > Len(rows) THEN Len(rows) ELSE n)

\* C21: getWorkoutsByUserId(u) lists u's workouts newest first, workouts of one
\* date in insertion order, so that a call has one possible result;
\* getRecentWorkouts(u, n) is the first n elements of that list.
C21_RecentWorkouts ==
  [][/\ \A u \in UserIds :
          StoreGetWorkoutsByUserId(u) =>
            /\ listsNewestFirst(resp'.body, u)
            /\ getWorkoutsByUserId(u) = {resp'.body}
     /\ \A u \in UserIds, n \in Limits \cup {0 - 1} :
          StoreGetRecentWorkouts(u, n) =>
            \E all \in getWorkoutsByUserId(u) :
              /\ listsNewestFirst(all, u)
              /\ resp'.body = firstElements(all, n)]_vars

\* two characters are one letter in either case, or one character
sameLetter(a, b) ==
  \/ a = b
  \/ \E k \in 1..Len(uppercase) :
       {a, b} = {SubSeq(uppercase, k, k), SubSeq(lowercase, k, k)}

\* text contains q as a substring, letters compared without their case
containsIgnoringCase(text, q) ==
  \E start \in 0..(Len(text) - Len(q)) :
    \A i \in 1..Len(q) :
      sameLetter(SubSeq(text, start + i, start + i), SubSeq(q, i, i))

matches(exercise, q) ==
  \/ containsIgnoringCase(exercise.name, q)
  \/ containsIgnoringCase(exercise.description, q)

\* C22: searchExercises(q) returns exactly the exercises whose name or
\* description contains q, compared case-insensitively; on the seed catalogue
\* "squat" finds Back Squat and the exercises whose description has the word.
C22_SearchExercises ==
  resp.route = "searchExercises" =>
    /\ Len(resp.body) = Cardinality({k \in DOMAIN exercises : matches(exercises[k], resp.id)})
    /\ {resp.body[i] : i \in 1..Len(resp.body)} =
         {exercises[k] : k \in {j \in DOMAIN exercises : matches(exercises[j], resp.id)}}
    /\ resp.id = "squat" /\ exercises = initializeExercises.exercises =>
         {resp.body[i].name : i \in 1..Len(resp.body)} =
           {"Back Squat", "Thruster", "Wall Ball", "Burpee"}

C22_Witness ==
  /\ resp.route = "searchExercises"
  /\ resp.id = "SQUAT"
  /\ \E i \in 1..Len(resp.body) : resp.body[i].name = "Snatch"
  /\ \E i \in 1..Len(resp.body) : resp.body[i].name = "Back Squat"
  /\ \E k \in DOMAIN exercises : exercises[k].name = "Plank"
  /\ Len(resp.body) < Len(exercises)

\* C23: right after the store is constructed, before any call, it holds exactly
\* 12 exercises, 3 in each of the four categories, and every other container
\* is empty.
C23_SeededStore ==
  resp = NoResponse =>
    /\ Cardinality(DOMAIN exercises) = 12
    /\ \A c \in exerciseCategories :
         Cardinality({k \in DOMAIN exercises : exercises[k].category = c}) = 3
    /\ \A k \in DOMAIN exercises : exercises[k].category \in exerciseCategories
    /\ users = EmptyMap /\ workouts = EmptyMap /\ personalRecords = EmptyMap
    /\ groups = EmptyMap /\ groupMembers = EmptyMap
    /\ scheduledWorkouts = EmptyMap /\ workoutResults = EmptyMap

C23_Witness ==
  /\ resp = NoResponse
  /\ \A c \in exerciseCategories : \E k \in DOMAIN exercises : exercises[k].category = c
  /\ exerciseIdCounter = 13

\* C24: in Tabata mode a period that counts down to zero is followed by the
\* other period: after work the rest time with the round unchanged, after rest
\* the work time with the round one higher, and after the last round the timer
\* stops at 0 with isRunning false.
C24_TabataAlternates ==
  [][Tick /\ intervalRef.timerType = "Tabata" /\ timeLeft <= 1 =>
       /\ mounted'
       /\ \/ timeLeft' = settings.restTime /\ round' = round /\ isRunning'
          \/ timeLeft' = settings.workTime /\ round' = round + 1 /\ isRunning'
          \/ timeLeft' = 0 /\ ~isRunning' /\ round >= settings.rounds]_vars

\* C25: in every container each stored entity's id field is the key it is
\* stored under, whatever creates, updates and deletes came before and
\* whatever fields their patches carried.
C25_IdIsKey ==
  \A t \in DOMAIN stores : \A k \in DOMAIN stores[t] : stores[t][k].id = k

\* C26: through the routes the userId of a workout or of a personal record
\* never changes once the record exists.
C26_UserIdKept ==
  [][/\ \A k \in DOMAIN workouts \cap DOMAIN workouts' :
          workouts'[k].userId = workouts[k].userId
     /\ \A k \in DOMAIN personalRecords \cap DOMAIN personalRecords' :
          personalRecords'[k].userId = personalRecords[k].userId]_vars

\* C27: a PUT of a workout or of a personal record by its owner with a body
\* that carries no date leaves the date the record has.
C27_DateKept ==
  [][/\ \A u \in Requesters, id \in WorkoutIds, b \in WorkoutBodies :
          /\ PutWorkoutsId(u, id, b)
          /\ resp'.status = 200
          /\ "date" \notin DOMAIN b
          => workouts'[id].date = workouts[id].date
     /\ \A u \in Requesters, id \in PRIds, b \in PRBodies :
          /\ PutPrsId(u, id, b)
          /\ resp'.status = 200
          /\ "date" \notin DOMAIN b
          => personalRecords'[id].date = personalRecords[id].date]_vars

\* C28: a deleteGroup or deleteScheduledWorkout that returns false, its id
\* having no row of its own, leaves every container and every counter as it
\* was, whatever child rows carry that id as their foreign key.
C28_FalseDeleteChangesNothing ==
  [][/\ \E id \in RowIds : StoreDeleteGroup(id) \/ StoreDeleteScheduledWorkout(id)
     /\ ret' = "false"
     => UNCHANGED <<containers, counters>>]_vars

\* C29: in every state of a mounted timer isRunning is true exactly when a
\* tick interval is active.
C29_RunningIffInterval == mounted => (isRunning <=> intervalRef.active)

\* a timer that is set up, reset and started only while it is not running, and
\* that once started is left to its interval
TimerRunCalls ==
  \/ ~isRunning /\ \E type \in timerTypes : SetActiveTimer(type)
  \/ ~isRunning /\ \E newSettings \in settingsChanges(settings) :
                     OnSettingsChange(newSettings)
  \/ ~isRunning /\ handleStartStop
  \/ ~isRunning /\ handleReset
  \/ Tick

SpecTimerRun == Init /\ [][TimerRunCalls]_vars

\* setInterval calls back every second for as long as the interval is active
SpecTimerRunFair == SpecTimerRun /\ WF_vars(Tick)

countsDown == timerType \in {"Countdown", "AMRAP"}

\* C30: a started Countdown or AMRAP timer that is left alone loses exactly one
\* second per tick and never falls below 0, comes to timeLeft = 0 with
\* isRunning false, and from then on no tick changes its state.
C30_CountsDownToZero ==
  /\ [](countsDown => timeLeft >= 0)
  /\ [][Tick /\ countsDown =>
          timeLeft' = IF timeLeft >= 1 THEN timeLeft - 1 ELSE 0]_vars
  /\ (countsDown /\ isRunning) ~> (countsDown /\ timeLeft = 0 /\ ~isRunning)
  /\ [][Tick /\ countsDown /\ timeLeft = 0 /\ ~isRunning => UNCHANGED timerVars]_vars

\* an AMRAP timer started from more than a second has run down and stopped
C30_Witness ==
  /\ timerType = "AMRAP"
  /\ intervalRef # null
  /\ intervalRef.timerType = "AMRAP"
  /\ intervalRef.settings = settings
  /\ settings.minutes * 60 + settings.seconds > 1
  /\ timeLeft = 0
  /\ ~isRunning
  /\ ~intervalRef.active
=============================================================================
